---- MODULE Spec2Model ----
(***************************************************************************)
(* Contract_Risk_Assessment: a model of the risk-scoring engine            *)
(* (src/src/contract_analysis/imp_risk_scorer.py) and of the tool adapters *)
(* (src/src/contract_analysis/imp_tools_integration.py), and of the        *)
(* detection, report and training scripts (src/scripts).                   *)
(*                                                                         *)
(* Python dicts are modelled as functions whose domain is the set of keys  *)
(* present; Python None is the value PyNone; a raised exception is a value *)
(* tagged raised |-> TRUE.                                                 *)
(*                                                                         *)
(* The fields of a record constructor are written in the order in which    *)
(* TLC keeps them (the order in which the field names first appear in the  *)
(* module), so that a record is in normal form as soon as it is built and  *)
(* two workers never reorder the same record at once; the order of the     *)
(* keys of a dict literal in the source is therefore not always kept.      *)
(***************************************************************************)
EXTENDS Integers, Sequences, FiniteSets, TLC

VARIABLES
    scorer_class,   \* the class of the scorer object: "RiskScorer", "Legal" or "Smart"
    patterns_file,  \* the patterns file LegalContractRiskScorer.__init__ was given
    risk_patterns,  \* LegalContractRiskScorer.risk_patterns, set by __init__
    risk_score,     \* RiskScorer.risk_score: the RiskScore object of the scorer
    calls,          \* history: the add_vulnerability calls made on risk_score since it was constructed
    last_run        \* history: the last operation performed on the scorer, its input and outcome

scorer_vars == <<scorer_class, patterns_file, risk_patterns, risk_score, calls, last_run>>

VARIABLES
    analyzer,          \* one analyzer object made by create_analyzer: its class and its self.results
    last_call,         \* history: the last call made on that analyzer, its input and what it returned
    analyzers,         \* MultiToolAnalyzer.analyzers: self.results of each of its three analyzers
    combined_results,  \* MultiToolAnalyzer.combined_results
    multi_call         \* history: the last MultiToolAnalyzer.analyze_contract call and what it returned

tool_vars == <<analyzer, last_call, analyzers, combined_results, multi_call>>

VARIABLES
    model_file,      \* Models/vulnerability_patterns.json: absent, or its content
    detection_file,  \* External_Results/detections/Bank_detection.json: absent, or its content
    report_file,     \* External_Results/reports/Bank_report.md: absent, or its lines
    pipeline_call    \* history: the last script function run, its inputs and what it produced

pipeline_vars == <<model_file, detection_file, report_file, pipeline_call>>

VARIABLES
    trainer,    \* a training pass in progress: its position, and the patterns it is writing
    detector,   \* a detection pass in progress: its position, and the model it has loaded
    published   \* history: the model files that were written to their end, oldest first

model_task_vars == <<trainer, detector, published>>

VARIABLES
    mythril,    \* a MythrilAnalyzer that several callers use: the dictionary self.results names
    dicts,      \* the result dictionaries made by the calls of analyze, by the call that made them
    analyses    \* the calls of analyze on that analyzer: position, what the tool does, value returned

adapter_task_vars == <<mythril, dicts, analyses>>

VARIABLES
    tool_run,   \* a MultiToolAnalyzer.analyze_contract call in progress: its tools, its position
    detect_run  \* a detect_external_loopholes call in progress: its contract, its position

barrier_task_vars == <<tool_run, detect_run>>

VARIABLES
    vulnerabilities_id,  \* the list object risk_score.vulnerabilities names
    lists,               \* the list objects in use, by name: their elements
    held                 \* the report a caller obtained: its values, and the list object it holds

report_task_vars == <<vulnerabilities_id, lists, held>>

VARIABLES
    pipeline_run  \* a run of main_pipeline.py: its mode, its steps, the steps run, its exit code

main_task_vars == <<pipeline_run>>

VARIABLES
    analysis_status,  \* backend: the AnalysisStatus object the dictionary holds for the analysis
    status_objects,   \* backend: the AnalysisStatus objects made for the analysis, their fields
    results_folder,   \* backend: the result file of the analysis and its temporary file
    analysis_task,    \* backend: analyze_contract_sync run as a background task, its position
    result_reader,    \* backend: a get_analysis_result request, its position, the object it holds
    responses         \* history: the responses given, each with the status the analysis had then

backend_task_vars == <<analysis_status, status_objects, results_folder, analysis_task, result_reader, responses>>

task_vars == <<model_task_vars, adapter_task_vars, barrier_task_vars, report_task_vars, main_task_vars, backend_task_vars>>

\* what the steps of the training and detection passes leave alone
snapshot_rest == <<scorer_vars, tool_vars, adapter_task_vars, barrier_task_vars, report_task_vars, main_task_vars, backend_task_vars>>

\* what the steps of the calls on a shared analyzer leave alone
shared_rest == <<scorer_vars, tool_vars, pipeline_vars, model_task_vars, barrier_task_vars, report_task_vars, main_task_vars, backend_task_vars>>

\* what the steps of an analysis run leave alone
barrier_rest == <<scorer_vars, model_task_vars, adapter_task_vars, report_task_vars, main_task_vars, backend_task_vars>>

\* what the operations on a scorer whose report is held leave alone
report_rest == <<tool_vars, pipeline_vars, model_task_vars, adapter_task_vars, barrier_task_vars, main_task_vars, backend_task_vars>>

\* what the steps of main_pipeline.py leave alone
main_rest == <<scorer_vars, tool_vars, model_task_vars, adapter_task_vars, barrier_task_vars, report_task_vars, backend_task_vars>>

\* what the steps of the backend leave alone
backend_rest == <<scorer_vars, tool_vars, pipeline_vars, model_task_vars, adapter_task_vars, barrier_task_vars, report_task_vars, main_task_vars>>

vars == <<scorer_vars, tool_vars, pipeline_vars, task_vars>>

----------------------------------------------------------------------------
(* Bounds of the model *)

\* the largest number of findings a RiskScore holds in the model
MaxFindings == 3

----------------------------------------------------------------------------
(* Generic helpers for Python values *)

PyNone == "<None>"

EmptyDict == [k \in {} |-> 0]

HasKey(d, k) == k \in DOMAIN d

\* d[k] = v
DictSet(d, k, v) == [x \in (DOMAIN d) \cup {k} |-> IF x = k THEN v ELSE d[x]]

\* d.get(k, default)
DictGet(d, k, default) == IF k \in DOMAIN d THEN d[k] ELSE default

Last(s) == s[Len(s)]

Indices(s) == 1..Len(s)

RECURSIVE SumSeq(_)
SumSeq(s) == IF s = <<>> THEN 0 ELSE Head(s) + SumSeq(Tail(s))

RECURSIVE SetSum(_, _)
SetSum(f, S) == IF S = {} THEN 0 ELSE LET x == CHOOSE y \in S : TRUE IN f[x] + SetSum(f, S \ {x})

MaxOf(S, default) == IF S = {} THEN default ELSE CHOOSE m \in S : \A y \in S : y <= m

----------------------------------------------------------------------------
(* class RiskLevel(Enum) *)

NONE == 0
LOW == 1
MEDIUM == 2
HIGH == 3
CRITICAL == 4

RiskLevel == {NONE, LOW, MEDIUM, HIGH, CRITICAL}

\* RiskLevel.to_string: a value that is no member of the enum reads "Unknown"
to_string(level) ==
    CASE level = NONE -> "None"
      [] level = LOW -> "Low"
      [] level = MEDIUM -> "Medium"
      [] level = HIGH -> "High"
      [] level = CRITICAL -> "Critical"
      [] OTHER -> "Unknown"

----------------------------------------------------------------------------
(* class RiskScore *)

\* RiskScore.__init__
RiskScore_init ==
    [vulnerabilities |-> <<>>,
     total_score |-> 0,
     max_risk_level |-> NONE,
     risk_categories |-> EmptyDict]

\* a plausible slip: High weighted 5, and the .get default -1 with NONE left out of the table
_get_risk_weight_slip(level) ==
    CASE level = LOW -> 1
      [] level = MEDIUM -> 3
      [] level = HIGH -> 5
      [] level = CRITICAL -> 15
      [] OTHER -> -1

\* RiskScore._get_risk_weight: weights.get(level, 0)
_get_risk_weight(level) ==
    CASE level = NONE -> 0
      [] level = LOW -> 1
      [] level = MEDIUM -> 3
      [] level = HIGH -> 7
      [] level = CRITICAL -> 15
      [] OTHER -> 0

\* a plausible slip: the running maximum is overwritten by the newest level
update_category_overwrite(stats, risk_level, weight) ==
    [count |-> stats.count + 1,
     max_level |-> risk_level,
     score |-> stats.score + weight]

\* add_vulnerability, lines 77-83: the update of one category's stats
update_category(stats, risk_level, weight) ==
    [count |-> stats.count + 1,
     max_level |-> IF risk_level > stats.max_level THEN risk_level ELSE stats.max_level,
     score |-> stats.score + weight]

\* the vuln dict add_vulnerability builds
Vuln(name, description, risk_level, category, location, remediation) ==
    [risk_level |-> risk_level,
     name |-> name,
     description |-> description,
     category |-> category,
     location |-> location,
     remediation |-> remediation,
     risk_level_str |-> to_string(risk_level)]

\* a plausible slip: a finding equal in name, category and location to a recorded one is skipped
add_vulnerability_dedup(rs, name, description, risk_level, category, location, remediation) ==
    IF \E i \in Indices(rs.vulnerabilities) :
           /\ rs.vulnerabilities[i].name = name
           /\ rs.vulnerabilities[i].category = category
           /\ rs.vulnerabilities[i].location = location
    THEN rs
    ELSE LET weight == _get_risk_weight(risk_level)
             cats0 == IF ~HasKey(rs.risk_categories, category)
                      THEN DictSet(rs.risk_categories, category,
                                   [count |-> 0, max_level |-> NONE, score |-> 0])
                      ELSE rs.risk_categories
         IN [vulnerabilities |-> Append(rs.vulnerabilities,
                  Vuln(name, description, risk_level, category, location, remediation)),
             total_score |-> rs.total_score + weight,
             max_risk_level |-> IF risk_level > rs.max_risk_level
                                THEN risk_level ELSE rs.max_risk_level,
             risk_categories |-> DictSet(cats0, category,
                  update_category(cats0[category], risk_level, weight))]

\* RiskScore.add_vulnerability, as a function from the RiskScore before to the RiskScore after
add_vulnerability(rs, name, description, risk_level, category, location, remediation) ==
    LET vuln == Vuln(name, description, risk_level, category, location, remediation)
        cats0 == IF ~HasKey(rs.risk_categories, category)
                 THEN DictSet(rs.risk_categories, category,
                              [count |-> 0, max_level |-> NONE, score |-> 0])
                 ELSE rs.risk_categories
        weight == _get_risk_weight(risk_level)
    IN [vulnerabilities |-> Append(rs.vulnerabilities, vuln),
        total_score |-> rs.total_score + weight,
        max_risk_level |-> IF risk_level > rs.max_risk_level
                           THEN risk_level ELSE rs.max_risk_level,
        risk_categories |-> DictSet(cats0, category,
                                    update_category(cats0[category], risk_level, weight))]

\* a plausible slip: the band limits are taken inclusive (<=)
get_overall_risk_level_inclusive(rs) ==
    IF rs.total_score = 0 THEN NONE
    ELSE IF rs.total_score <= 3 THEN LOW
    ELSE IF rs.total_score <= 8 THEN MEDIUM
    ELSE IF rs.total_score <= 18 THEN HIGH
    ELSE CRITICAL

\* RiskScore.get_overall_risk_level
get_overall_risk_level(rs) ==
    IF rs.total_score = 0 THEN NONE
    ELSE IF rs.total_score < 3 THEN LOW
    ELSE IF rs.total_score < 8 THEN MEDIUM
    ELSE IF rs.total_score < 18 THEN HIGH
    ELSE CRITICAL

\* get_summary, lines 115-117: the number of findings of each level
level_counts(rs, level) ==
    Cardinality({i \in Indices(rs.vulnerabilities) : rs.vulnerabilities[i].risk_level = level})

\* RiskScore.get_summary
get_summary(rs) ==
    LET overall_level == get_overall_risk_level(rs)
    IN [total_score |-> rs.total_score,
        overall_risk_level |-> overall_level,
        overall_risk_str |-> to_string(overall_level),
        vulnerability_count |-> Len(rs.vulnerabilities),
        risk_distribution |-> [none |-> level_counts(rs, NONE),
                               low |-> level_counts(rs, LOW),
                               medium |-> level_counts(rs, MEDIUM),
                               high |-> level_counts(rs, HIGH),
                               critical |-> level_counts(rs, CRITICAL)],
        categories |-> [c \in DOMAIN rs.risk_categories |->
                           [count |-> rs.risk_categories[c].count,
                            max_level |-> to_string(rs.risk_categories[c].max_level),
                            score |-> rs.risk_categories[c].score]]]

\* RiskScore.get_detailed_report
get_detailed_report(rs) ==
    [vulnerabilities |-> rs.vulnerabilities, summary |-> get_summary(rs)]

\* the arguments of one add_vulnerability call, as the history records them
Call(name, description, risk_level, category, location, remediation) ==
    [risk_level |-> risk_level, name |-> name, description |-> description,
     category |-> category, location |-> location, remediation |-> remediation]

\* the RiskScore a fresh RiskScore becomes under a sequence of add_vulnerability calls
RECURSIVE Aggregate(_, _)
Aggregate(rs, cs) ==
    IF cs = <<>> THEN rs
    ELSE Aggregate(add_vulnerability(rs, Head(cs).name, Head(cs).description,
                                     Head(cs).risk_level, Head(cs).category,
                                     Head(cs).location, Head(cs).remediation),
                   Tail(cs))

----------------------------------------------------------------------------
(* The inputs of the direct add_vulnerability calls *)

Names == {"A", "B"}

Categories == {"Security", "Gas Optimization"}

NoRun == [kind |-> "none"]

NoCall == [op |-> "none"]

\* no analyzer has been created
NoAnalyzers ==
    /\ analyzer = PyNone
    /\ last_call = NoCall
    /\ analyzers = PyNone
    /\ combined_results = PyNone
    /\ multi_call = NoCall

\* a file that does not exist
Absent == [kind |-> "absent"]

\* no script has run and none of its files exists
NoPipeline ==
    /\ model_file = Absent
    /\ detection_file = Absent
    /\ report_file = Absent
    /\ pipeline_call = NoCall

\* a process that is not running
Idle == [pc |-> "idle"]

\* no training pass and no detection pass is in progress
NoModelTasks ==
    /\ trainer = Idle
    /\ detector = Idle
    /\ published = <<>>

\* no analyzer is used by several callers
NoAdapterTasks ==
    /\ mythril = PyNone
    /\ dicts = <<>>
    /\ analyses = <<>>

\* no analysis run is followed step by step
NoBarrierTasks ==
    /\ tool_run = Idle
    /\ detect_run = Idle

\* no caller holds a report
NoReportTasks ==
    /\ vulnerabilities_id = 0
    /\ lists = <<>>
    /\ held = Idle

\* main_pipeline.py does not run
NoMainTasks ==
    /\ pipeline_run = Idle

\* the backend holds no analysis
NoBackendTasks ==
    /\ analysis_status = 0
    /\ status_objects = <<>>
    /\ results_folder = PyNone
    /\ analysis_task = Idle
    /\ result_reader = Idle
    /\ responses = {}

\* nothing runs beside the operation under study
NoTasks == NoModelTasks /\ NoAdapterTasks /\ NoBarrierTasks /\ NoReportTasks /\ NoMainTasks /\ NoBackendTasks

OnlyModelTasks == NoAdapterTasks /\ NoBarrierTasks /\ NoReportTasks /\ NoMainTasks /\ NoBackendTasks

OnlyAdapterTasks == NoModelTasks /\ NoBarrierTasks /\ NoReportTasks /\ NoMainTasks /\ NoBackendTasks

OnlyBarrierTasks == NoModelTasks /\ NoAdapterTasks /\ NoReportTasks /\ NoMainTasks /\ NoBackendTasks

OnlyReportTasks == NoModelTasks /\ NoAdapterTasks /\ NoBarrierTasks /\ NoMainTasks /\ NoBackendTasks

OnlyMainTasks == NoModelTasks /\ NoAdapterTasks /\ NoBarrierTasks /\ NoReportTasks /\ NoBackendTasks

OnlyBackendTasks == NoModelTasks /\ NoAdapterTasks /\ NoBarrierTasks /\ NoReportTasks /\ NoMainTasks

----------------------------------------------------------------------------
(* The RiskScore object under direct add_vulnerability calls *)

InitScore ==
    /\ NoTasks
    /\ NoAnalyzers
    /\ NoPipeline
    /\ scorer_class = "RiskScorer"
    /\ patterns_file = PyNone
    /\ risk_patterns = PyNone
    /\ risk_score = RiskScore_init
    /\ calls = <<>>
    /\ last_run = NoRun

\* scorer.get_risk_score().add_vulnerability(name, "d", risk_level, category)
AddVulnerability ==
    \E name \in Names, risk_level \in RiskLevel, category \in Categories :
        /\ Len(risk_score.vulnerabilities) < MaxFindings
        /\ risk_score' = add_vulnerability(risk_score, name, "d", risk_level, category,
                                           PyNone, PyNone)
        /\ calls' = Append(calls, Call(name, "d", risk_level, category, PyNone, PyNone))
        /\ last_run' = [kind |-> "add"]
        /\ UNCHANGED <<scorer_class, patterns_file, risk_patterns, tool_vars, pipeline_vars, task_vars>>

\* RiskScorer.reset
Reset ==
    /\ risk_score' = RiskScore_init
    /\ calls' = <<>>
    /\ last_run' = [kind |-> "reset"]
    /\ UNCHANGED <<scorer_class, patterns_file, risk_patterns, tool_vars, pipeline_vars, task_vars>>

NextScore == AddVulnerability \/ Reset

SpecScore == InitScore /\ [][NextScore]_vars

----------------------------------------------------------------------------
(* Properties of the RiskScore object, checked under SpecScore *)

\* the weight table as the specification states it, by severity name
StatedWeight(severity) ==
    CASE severity = "Critical" -> 15
      [] severity = "High" -> 7
      [] severity = "Medium" -> 3
      [] severity = "Low" -> 1
      [] OTHER -> 0

\* the bands as the specification states them, by name
StatedBand(score) ==
    CASE score = 0 -> "None"
      [] 0 < score /\ score < 3 -> "Low"
      [] 3 <= score /\ score < 8 -> "Medium"
      [] 8 <= score /\ score < 18 -> "High"
      [] score >= 18 -> "Critical"

StatedWeights(vs) == [i \in Indices(vs) |-> StatedWeight(vs[i].risk_level_str)]

SeverityRank(severity) ==
    CASE severity = "Critical" -> 4
      [] severity = "High" -> 3
      [] severity = "Medium" -> 2
      [] severity = "Low" -> 1
      [] OTHER -> 0

\* C1: the overall risk level is the band of total_score: 0 is None, (0,3) Low,
\* [3,8) Medium, [8,18) High, [18,..) Critical; so the sums 3, 8 and 18 are rated
\* Medium, High and Critical, and the sum 0 is rated None.
C1_OverallLevelBands ==
    LET summary == get_summary(risk_score)
    IN /\ summary.overall_risk_str = StatedBand(summary.total_score)
       /\ summary.total_score = 0 => summary.overall_risk_level = NONE
       /\ summary.total_score = 3 => summary.overall_risk_level = MEDIUM
       /\ summary.total_score = 8 => summary.overall_risk_level = HIGH
       /\ summary.total_score = 18 => summary.overall_risk_level = CRITICAL

\* a finding set whose weights sum to exactly 18 (Critical and Medium) is rated Critical
C1_Witness ==
    /\ risk_score.total_score = 18
    /\ Len(risk_score.vulnerabilities) = 2
    /\ get_summary(risk_score).overall_risk_str = "Critical"

\* C2: total_score is the sum over the recorded findings of the stated weight of
\* their severity; a RiskScore without findings has total_score 0 and level None.
C2_TotalIsSumOfWeights ==
    LET vs == get_detailed_report(risk_score).vulnerabilities
        summary == get_summary(risk_score)
    IN /\ summary.total_score = SumSeq(StatedWeights(vs))
       /\ vs = <<>> => summary.total_score = 0 /\ summary.overall_risk_str = "None"

\* three findings, Critical, High and Medium, sum to 25
C2_Witness ==
    /\ Len(risk_score.vulnerabilities) = 3
    /\ {risk_score.vulnerabilities[i].risk_level_str : i \in 1..3} = {"Critical", "High", "Medium"}
    /\ risk_score.total_score = 25

\* the histogram bucket of get_summary for a level
Bucket(rs, level) ==
    LET d == get_summary(rs).risk_distribution
    IN CASE level = NONE -> d.none
         [] level = LOW -> d.low
         [] level = MEDIUM -> d.medium
         [] level = HIGH -> d.high
         [] level = CRITICAL -> d.critical

\* C4: a step that adds a finding never decreases total_score and never decreases
\* the histogram bucket of the added finding's severity (nor any other bucket).
C4_AddIsMonotone ==
    [][Len(calls') = Len(calls) + 1 =>
          /\ get_summary(risk_score').total_score >= get_summary(risk_score).total_score
          /\ Bucket(risk_score', Last(calls').risk_level)
                >= Bucket(risk_score, Last(calls').risk_level)
          /\ \A level \in RiskLevel : Bucket(risk_score', level) >= Bucket(risk_score, level)]_vars

\* findings have been added on top of a non-empty RiskScore, one of them of weight 0
C4_Witness ==
    /\ Len(calls) = 3
    /\ calls[3].risk_level = NONE
    /\ risk_score.total_score > 0

\* C6: after n add_vulnerability calls the report lists exactly n findings in call
\* order, exact duplicates included, and each is counted in vulnerability_count,
\* in the histogram and in total_score.
C6_NoFindingDiscarded ==
    LET report == get_detailed_report(risk_score)
        vs == report.vulnerabilities
    IN /\ Len(vs) = Len(calls)
       /\ \A i \in Indices(calls) :
             /\ vs[i].name = calls[i].name
             /\ vs[i].category = calls[i].category
             /\ vs[i].location = calls[i].location
             /\ vs[i].risk_level = calls[i].risk_level
       /\ report.summary.vulnerability_count = Len(calls)
       /\ \A level \in RiskLevel :
             Bucket(risk_score, level)
                = Cardinality({i \in Indices(calls) : calls[i].risk_level = level})
       /\ report.summary.total_score
             = SumSeq([i \in Indices(calls) |-> StatedWeight(to_string(calls[i].risk_level))])

\* the same finding (name, category, location, level) was added twice and is listed twice
C6_Witness ==
    /\ Len(calls) = 3
    /\ calls[1] = calls[3]
    /\ risk_score.vulnerabilities[1] = risk_score.vulnerabilities[3]
    /\ calls[1].risk_level = HIGH
    /\ risk_score.total_score >= 14

FindingsOf(rs, category) ==
    {i \in Indices(rs.vulnerabilities) : rs.vulnerabilities[i].category = category}

AllCategories == Categories \cup {"Completeness", "Clarity", "Fairness", "Best Practices"}

\* C7: for every category label, the CategoryScore has count = the number of findings
\* of that category, max severity = the highest severity among them, score = the sum
\* of their weights; an entry exists exactly for the labels that have a finding; the
\* counts sum to the number of findings and the scores to total_score.
C7_CategoryScores ==
    LET vs == risk_score.vulnerabilities
        cats == risk_score.risk_categories
    IN /\ DOMAIN cats = {vs[i].category : i \in Indices(vs)}
       /\ \A c \in DOMAIN cats :
             /\ cats[c].count = Cardinality(FindingsOf(risk_score, c))
             /\ SeverityRank(get_summary(risk_score).categories[c].max_level)
                   = MaxOf({SeverityRank(vs[i].risk_level_str) : i \in FindingsOf(risk_score, c)}, 0)
             /\ cats[c].score = SetSum(StatedWeights(vs), FindingsOf(risk_score, c))
       /\ SetSum([c \in DOMAIN cats |-> cats[c].count], DOMAIN cats) = Len(vs)
       /\ SetSum([c \in DOMAIN cats |-> cats[c].score], DOMAIN cats) = risk_score.total_score

\* two categories are present; Security holds a High finding followed by a Low one
C7_Witness ==
    /\ DOMAIN risk_score.risk_categories = Categories
    /\ risk_score.risk_categories["Security"].count = 2
    /\ risk_score.risk_categories["Security"].max_level = HIGH
    /\ Last(risk_score.vulnerabilities).risk_level = LOW
    /\ Last(risk_score.vulnerabilities).category = "Security"

----------------------------------------------------------------------------
(* Severity strings and their conversion to RiskLevel *)

\* the severity strings of the model; PyNone stands for a missing one
SeverityStrings == {"low", "High", "CRITICAL", "unknown", "Severe", ""}

\* str.lower() on the severity strings
Lower(s) ==
    CASE s = "low" -> "low"
      [] s = "High" -> "high"
      [] s = "CRITICAL" -> "critical"
      [] s = "unknown" -> "unknown"
      [] s = "Severe" -> "severe"
      [] s = "" -> ""

\* str.upper() on the severity strings
Upper(s) ==
    CASE s = "low" -> "LOW"
      [] s = "High" -> "HIGH"
      [] s = "CRITICAL" -> "CRITICAL"
      [] s = "unknown" -> "UNKNOWN"
      [] s = "Severe" -> "SEVERE"
      [] s = "" -> ""

\* JSON values, as json.load(s) returns them: a Python value with its type
JStr(s) == [v |-> s, t |-> "str"]

JNull == [v |-> "", t |-> "null"]

JInt(n) == [v |-> n, t |-> "int"]

JBool(b) == [v |-> b, t |-> "bool"]

JList(items) == [v |-> items, t |-> "list"]

\* a dict is the sequence of its (k, v) items in insertion order
JDict(items) == [v |-> items, t |-> "dict"]

\* isinstance(x, str)
IsStr(x) == x.t = "str"

\* RiskLevel.from_string: level_map.get(level_str.lower(), cls.LOW); None has no lower()
from_string(level_str) ==
    IF level_str = PyNone
    THEN [raised |-> TRUE, exc |-> "AttributeError"]
    ELSE [raised |-> FALSE,
          value |-> CASE Lower(level_str) = "none" -> NONE
                      [] Lower(level_str) = "low" -> LOW
                      [] Lower(level_str) = "medium" -> MEDIUM
                      [] Lower(level_str) = "high" -> HIGH
                      [] Lower(level_str) = "critical" -> CRITICAL
                      [] OTHER -> LOW]

\* RiskLevel[name]: the enum members by name
RiskLevelByName ==
    [NONE |-> NONE, LOW |-> LOW, MEDIUM |-> MEDIUM, HIGH |-> HIGH, CRITICAL |-> CRITICAL]

\* JSON null, where a RiskLevel is expected: no member of RiskLevel
NullLevel == -1

----------------------------------------------------------------------------
(* class LegalContractRiskScorer *)

\* the default_patterns of _load_risk_patterns; a dict of patterns is the sequence of
\* its (id, info) items in insertion order; keywords and regex_patterns are
\* represented by what they find in a text (see LegalTexts)
default_patterns ==
    [missing_clauses |->
        << [id |-> "termination",
            info |-> [risk_level |-> HIGH, description |-> "Missing or inadequate termination clause",
                      category |-> "Completeness",
                      remediation |-> "Add a clear termination clause that specifies conditions and process."]],
           [id |-> "confidentiality",
            info |-> [risk_level |-> MEDIUM, description |-> "Missing confidentiality clause",
                      category |-> "Completeness",
                      remediation |-> "Add a comprehensive confidentiality clause."]],
           [id |-> "liability",
            info |-> [risk_level |-> HIGH, description |-> "Missing liability clause",
                      category |-> "Completeness",
                      remediation |-> "Add a liability clause that clearly defines limits."]] >>,
     ambiguous_terms |->
        << [id |-> "reasonable",
            info |-> [risk_level |-> MEDIUM, description |-> "Use of ambiguous term \"reasonable\"",
                      category |-> "Clarity",
                      remediation |-> "Define specific criteria or metrics instead of using subjective terms."]],
           [id |-> "substantial",
            info |-> [risk_level |-> MEDIUM, description |-> "Use of ambiguous term \"substantial\"",
                      category |-> "Clarity",
                      remediation |-> "Define specific criteria for completion or performance."]] >>]

\* _load_risk_patterns, lines 234-239: a string risk_level becomes RiskLevel[upper()],
\* or LOW on KeyError; a pattern without the key stays without it, and a value that is
\* no string (null) is left as it is
convert_risk_level(info) ==
    IF HasKey(info, "risk_level")
    THEN IF IsStr(info["risk_level"])
         THEN [info EXCEPT !["risk_level"] =
                  IF Upper(@.v) \in DOMAIN RiskLevelByName
                  THEN RiskLevelByName[Upper(@.v)] ELSE LOW]
         ELSE [info EXCEPT !["risk_level"] = NullLevel]
    ELSE info

\* LegalContractRiskScorer._load_risk_patterns
_load_risk_patterns(file) ==
    IF ~file.exists THEN default_patterns
    ELSE IF ~file.valid THEN default_patterns
    ELSE [category_key \in DOMAIN file.content |->
             [i \in Indices(file.content[category_key]) |->
                 [id |-> file.content[category_key][i].id,
                  info |-> convert_risk_level(file.content[category_key][i].info)]]]

\* the patterns files of the model: none, one that is no JSON, and files that
\* configure the termination clause with a risk_level string, without one, or with null
NoFile == [exists |-> FALSE]

BadFile == [exists |-> TRUE, valid |-> FALSE]

FileWith(info) ==
    [exists |-> TRUE, valid |-> TRUE,
     content |-> [missing_clauses |-> << [id |-> "termination", info |-> info] >>]]

PatternFiles ==
    {NoFile, BadFile, FileWith(EmptyDict), FileWith([risk_level |-> JNull])}
        \cup {FileWith([risk_level |-> JStr(s)]) : s \in {"High", "CRITICAL", "Severe", ""}}

\* the f-strings of the legal checks, for the ids of the model
MissingName(clause_id) ==
    CASE clause_id = "termination" -> "Missing termination clause"
      [] clause_id = "confidentiality" -> "Missing confidentiality clause"
      [] clause_id = "liability" -> "Missing liability clause"

UnbalancedName(right_id) ==
    CASE right_id = "termination_rights" -> "Potentially unbalanced termination rights"
      [] right_id = "liability_caps" -> "Potentially unbalanced liability caps"
      [] right_id = "indemnification" -> "Potentially unbalanced indemnification"

UnbalancedTotalName(right_id) ==
    CASE right_id = "termination_rights" -> "Unbalanced termination rights"
      [] right_id = "liability_caps" -> "Unbalanced liability caps"
      [] right_id = "indemnification" -> "Unbalanced indemnification"

MissingRemediation(clause_id) ==
    CASE clause_id = "termination" -> "Add a termination clause to the contract."
      [] clause_id = "confidentiality" -> "Add a confidentiality clause to the contract."
      [] clause_id = "liability" -> "Add a liability clause to the contract."

\* description + (f" favoring {party}" if party else ""), for the parties of the model
Favoring(description, party) ==
    CASE party = PyNone -> description
      [] party = "Supplier" /\ description = "Unbalanced termination rights"
            -> "Unbalanced termination rights favoring Supplier"
      [] party = "Supplier" /\ description = "Potentially unbalanced liability limitations"
            -> "Potentially unbalanced liability limitations favoring Supplier"
      [] party = "Supplier" /\ description = "One-sided indemnification obligations"
            -> "One-sided indemnification obligations favoring Supplier"

UnbalancedTotalDescription(party) ==
    CASE party = "Supplier" -> "Rights are unbalanced, favoring Supplier"

UnbalancedTotalRemediation(right_id) ==
    CASE right_id = "termination_rights"
            -> "Review contract to ensure termination rights are balanced between parties."
      [] right_id = "liability_caps"
            -> "Review contract to ensure liability caps are balanced between parties."
      [] right_id = "indemnification"
            -> "Review contract to ensure indemnification are balanced between parties."

RECURSIVE Flatten(_)
Flatten(ss) == IF ss = <<>> THEN <<>> ELSE Head(ss) \o Flatten(Tail(ss))

\* LegalContractRiskScorer._check_missing_clauses: the add_vulnerability calls it makes
_check_missing_clauses(patterns, text) ==
    LET entries == DictGet(patterns, "missing_clauses", <<>>)
    IN Flatten([i \in Indices(entries) |->
           IF entries[i].id \in text.found THEN <<>>
           ELSE << Call(MissingName(entries[i].id),
                        DictGet(entries[i].info, "description", MissingName(entries[i].id)),
                        DictGet(entries[i].info, "risk_level", MEDIUM),
                        DictGet(entries[i].info, "category", "Completeness"),
                        PyNone,
                        DictGet(entries[i].info, "remediation",
                                MissingRemediation(entries[i].id))) >>])

\* LegalContractRiskScorer._check_ambiguous_terms: one call per keyword occurrence and
\* per regex match of each configured term
_check_ambiguous_terms(patterns, text) ==
    LET entries == DictGet(patterns, "ambiguous_terms", <<>>)
    IN Flatten([i \in Indices(entries) |->
           LET hits == DictGet(text.term_hits, entries[i].id, <<>>)
           IN [h \in Indices(hits) |->
                  Call(hits[h].name,
                       DictGet(entries[i].info, "description", "Use of potentially ambiguous term"),
                       DictGet(entries[i].info, "risk_level", MEDIUM),
                       DictGet(entries[i].info, "category", "Clarity"),
                       hits[h].location,
                       DictGet(entries[i].info, "remediation",
                               "Replace ambiguous terms with more specific language."))]])

\* the rights_patterns of _check_unbalanced_rights
rights_patterns ==
    << [risk_level |-> HIGH, description |-> "Unbalanced termination rights", category |-> "Fairness",
        remediation |-> "Consider adding reciprocal termination rights to ensure fairness.",
        id |-> "termination_rights"],
       [risk_level |-> MEDIUM, description |-> "Potentially unbalanced liability limitations", category |-> "Fairness",
        remediation |-> "Consider balanced liability provisions for both parties.",
        id |-> "liability_caps"],
       [risk_level |-> MEDIUM, description |-> "One-sided indemnification obligations", category |-> "Fairness",
        remediation |-> "Consider mutual indemnification provisions where appropriate.",
        id |-> "indemnification"] >>

\* LegalContractRiskScorer._check_unbalanced_rights: one call per match, and one more
\* when the matches name several parties and max(counts) > 2 * min(counts)
_check_unbalanced_rights(text) ==
    Flatten([r \in Indices(rights_patterns) |->
        LET right_info == rights_patterns[r]
            matches == DictGet(text.rights, right_info.id, <<>>)
            parties == {matches[m].party : m \in Indices(matches)} \ {PyNone}
            count(party) == Cardinality({m \in Indices(matches) : matches[m].party = party})
            counts == {count(party) : party \in parties}
            max_count == MaxOf(counts, 0)
            min_count == CHOOSE c \in counts : \A d \in counts : c <= d
            first_max == CHOOSE m \in Indices(matches) :
                            /\ matches[m].party \in parties
                            /\ count(matches[m].party) = max_count
                            /\ \A k \in 1..(m - 1) :
                                  matches[k].party \in parties => count(matches[k].party) < max_count
        IN [m \in Indices(matches) |->
               Call(UnbalancedName(right_info.id),
                    Favoring(right_info.description, matches[m].party),
                    right_info.risk_level, right_info.category,
                    matches[m].location, right_info.remediation)]
           \o (IF Cardinality(parties) > 1 /\ max_count > 2 * min_count
               THEN << Call(UnbalancedTotalName(right_info.id),
                            UnbalancedTotalDescription(matches[first_max].party),
                            right_info.risk_level, right_info.category, PyNone,
                            UnbalancedTotalRemediation(right_info.id)) >>
               ELSE <<>>)])

\* LegalContractRiskScorer.analyze_contract: the add_vulnerability calls it makes, in order
analyze_contract(patterns, text) ==
    IF text.empty
    THEN << Call("Empty contract", "The contract text is empty or could not be extracted",
                 CRITICAL, "Completeness", PyNone,
                 "Provide a valid contract document with proper text content.") >>
    ELSE _check_missing_clauses(patterns, text)
            \o _check_ambiguous_terms(patterns, text)
            \o _check_unbalanced_rights(text)

\* the contract texts of the model, each given by what the checks find in it:
\* found: the clause ids whose keywords or regex occur; term_hits: per ambiguous term,
\* its keyword occurrences and then its regex matches; rights: per right, its matches
LegalTexts ==
    { [id |-> "text:", found |-> {}, term_hits |-> EmptyDict, rights |-> EmptyDict, empty |-> TRUE],
      [id |-> "text:This agreement covers confidentiality and liability.",
       found |-> {"confidentiality", "liability"}, term_hits |-> EmptyDict,
       rights |-> EmptyDict, empty |-> FALSE],
      [id |-> "text:Termination, confidentiality, liability. Supplier shall use reasonable efforts.",
       found |-> {"termination", "confidentiality", "liability"}, term_hits |-> [reasonable |->
            << [name |-> "Ambiguous term: reasonable",
                location |-> "...n, confidentiality, liability. Supplier shall use reasonable efforts...."],
               [name |-> "Ambiguous pattern: reasonable efforts",
                location |-> "...liability. Supplier shall use reasonable efforts...."] >>],
       rights |-> EmptyDict,
       empty |-> FALSE],
      [id |-> "text:Termination, confidentiality, liability. Supplier shall not be liable.",
       found |-> {"termination", "confidentiality", "liability"}, term_hits |-> EmptyDict,
       rights |-> [liability_caps |->
            << [location |-> "...Termination, confidentiality, liability. Supplier shall not be liable....",
                party |-> "Supplier"] >>],
       empty |-> FALSE] }

----------------------------------------------------------------------------
(* class SmartContractRiskScorer *)

\* SmartContractRiskScorer._load_vulnerability_patterns, in insertion order; the regex
\* patterns are represented by their matches in a contract (see SmartCodes)
vulnerability_patterns ==
    << [risk_level |-> HIGH, description |-> "Potential reentrancy vulnerability", category |-> "Security",
        remediation |-> "Use ReentrancyGuard or Checks-Effects-Interactions pattern.",
        id |-> "reentrancy"],
       [risk_level |-> MEDIUM, description |-> "Unchecked return value from external call", category |-> "Security",
        remediation |-> "Check return values with require() statements.",
        id |-> "unchecked_return"],
       [risk_level |-> HIGH, description |-> "Using tx.origin for authorization", category |-> "Security",
        remediation |-> "Use msg.sender instead of tx.origin for authorization checks.",
        id |-> "tx_origin"],
       [risk_level |-> MEDIUM, description |-> "Timestamp dependency", category |-> "Security",
        remediation |-> "Avoid using block.timestamp for critical logic.",
        id |-> "timestamp_dependency"],
       [risk_level |-> MEDIUM, description |-> "Potential integer overflow/underflow", category |-> "Security",
        remediation |-> "Use SafeMath library or Solidity 0.8.0+ built-in overflow checks.",
        id |-> "integer_overflow"] >>

\* f"{description} detected at line {line_number}", for the line numbers of the model
DetectedAtLine(description, line_number) ==
    CASE line_number = 1 /\ description = "Potential reentrancy vulnerability"
            -> "Potential reentrancy vulnerability detected at line 1"
      [] line_number = 1 /\ description = "Unchecked return value from external call"
            -> "Unchecked return value from external call detected at line 1"
      [] line_number = 1 /\ description = "Using tx.origin for authorization"
            -> "Using tx.origin for authorization detected at line 1"
      [] line_number = 1 /\ description = "Timestamp dependency"
            -> "Timestamp dependency detected at line 1"
      [] line_number = 1 /\ description = "Potential integer overflow/underflow"
            -> "Potential integer overflow/underflow detected at line 1"

LargeStructDescription(line_number) ==
    CASE line_number = 1 -> "Large struct definition at line 1 may use excessive storage"

LacksAccessControl(function_name) ==
    CASE function_name = "withdraw" -> "Function 'withdraw' may lack proper access control"
      [] function_name = "Initialize" -> "Function 'Initialize' may lack proper access control"

\* SmartContractRiskScorer._check_vulnerability_patterns: one call per match of each
\* pattern of each vulnerability
_check_vulnerability_patterns(code) ==
    Flatten([v \in Indices(vulnerability_patterns) |->
        LET vuln_info == vulnerability_patterns[v]
            matches == DictGet(code.pattern_matches, vuln_info.id, <<>>)
        IN [m \in Indices(matches) |->
               Call(vuln_info.description,
                    DetectedAtLine(vuln_info.description, matches[m].line_number),
                    vuln_info.risk_level, vuln_info.category,
                    matches[m].location, vuln_info.remediation)]])

\* SmartContractRiskScorer._analyze_gas_usage: loops whose body writes storage, and
\* structs with more than 10 fields
_analyze_gas_usage(code) ==
    Flatten([l \in Indices(code.loops) |->
        IF code.loops[l].storage_write
        THEN << Call("Gas-intensive storage operations in loop",
                     "Loop contains storage write operations which can be gas-intensive",
                     MEDIUM, "Gas Optimization", code.loops[l].location,
                     "Consider optimizing storage access patterns or using memory variables within loops.") >>
        ELSE <<>>])
    \o Flatten([t \in Indices(code.structs) |->
        IF code.structs[t].fields > 10
        THEN << Call("Large struct definition",
                     LargeStructDescription(code.structs[t].line_number),
                     LOW, "Gas Optimization", code.structs[t].location,
                     "Consider breaking large structs into smaller, logically grouped structs.") >>
        ELSE <<>>])

\* the function names _check_best_practices exempts, compared in lower case
ExemptFunctions == {"constructor", "initialize", "fallback", "receive"}

\* str.lower() on the function names of the model
LowerName(function_name) ==
    CASE function_name = "withdraw" -> "withdraw"
      [] function_name = "Initialize" -> "initialize"

\* SmartContractRiskScorer._check_best_practices: functions matched as public or external
\* without a check, and state changes without events
_check_best_practices(code) ==
    Flatten([f \in Indices(code.functions) |->
        IF LowerName(code.functions[f].name) \notin ExemptFunctions
        THEN << Call("Missing access control",
                     LacksAccessControl(code.functions[f].name),
                     MEDIUM, "Security", code.functions[f].location,
                     "Add access modifiers (e.g., onlyOwner) or explicit checks for authorization.") >>
        ELSE <<>>])
    \o (IF /\ Cardinality(code.state_vars_changed) > 2
           /\ 2 * Cardinality(code.event_emissions) < Cardinality(code.state_vars_changed)
        THEN << Call("Insufficient event emissions",
                     "Contract appears to make state changes without emitting sufficient events",
                     LOW, "Best Practices", PyNone,
                     "Emit events for important state changes to improve contract observability.") >>
        ELSE <<>>)

\* SmartContractRiskScorer.analyze_contract_code: the add_vulnerability calls it makes, in order
analyze_contract_code(code) ==
    IF code.empty
    THEN << Call("Empty contract code", "The contract code is empty",
                 CRITICAL, "Completeness", PyNone, "Provide valid contract code.") >>
    ELSE _check_vulnerability_patterns(code)
            \o _analyze_gas_usage(code)
            \o _check_best_practices(code)

NoMatches ==
    [empty |-> FALSE, pattern_matches |-> EmptyDict, loops |-> <<>>, structs |-> <<>>,
     functions |-> <<>>, state_vars_changed |-> {}, event_emissions |-> {}]

\* the contracts of the model, each given by what the regex searches find in it
SmartCodes ==
    { [NoMatches EXCEPT !.empty = TRUE] @@ [id |-> "code:"],
      [NoMatches EXCEPT !.pattern_matches =
          [tx_origin |-> << [location |-> "Line 1: require(tx.origin == owner);", line_number |-> 1],
                            [location |-> "Line 1: require(tx.origin == owner);", line_number |-> 1] >>]]
        @@ [id |-> "code:require(tx.origin == owner);"],
      [NoMatches EXCEPT !.pattern_matches =
          [reentrancy |-> << [location |-> "Line 1: msg.sender.call{value: amount}(\"\");",
                              line_number |-> 1] >>,
           unchecked_return |-> << [location |-> "Line 1: msg.sender.call{value: amount}(\"\");",
                                    line_number |-> 1] >>]]
        @@ [id |-> "code:msg.sender.call{value: amount}(\"\");"],
      [NoMatches EXCEPT !.loops =
          << [location |-> "Line 1: for (uint i = 0; i < n; i++) { balances[i] = 0; }",
              storage_write |-> TRUE] >>]
        @@ [id |-> "code:for (uint i = 0; i < n; i++) { balances[i] = 0; }"],
      [NoMatches EXCEPT !.functions =
          << [name |-> "Initialize",
              location |-> "Line 1: function Initialize() public {\n}\nfunction withdraw() public"],
             [name |-> "withdraw",
              location |-> "Line 3: ialize() public {\n}\nfunction withdraw() public {\n}"] >>]
        @@ [id |-> "code:function Initialize() public {\n}\nfunction withdraw() public {\n}"] }

----------------------------------------------------------------------------
(* A scorer object under analyses, reset and findings that carry severity strings *)

\* add_vulnerability with a risk_level that is no RiskLevel member: the vuln dict is
\* appended (line 63) and 'risk_level.value' (line 66) raises AttributeError
add_vulnerability_raising(rs, c) ==
    [rs EXCEPT !.vulnerabilities =
        Append(@, Vuln(c.name, c.description, c.risk_level, c.category, c.location, c.remediation))]

\* the calls cs made in order on rs, up to the first one that raises
RECURSIVE run_calls(_, _)
run_calls(rs, cs) ==
    IF cs = <<>> THEN [rs |-> rs, raised |-> FALSE, made |-> 0]
    ELSE IF Head(cs).risk_level \in RiskLevel
         THEN LET rest == run_calls(add_vulnerability(rs, Head(cs).name, Head(cs).description,
                                                      Head(cs).risk_level, Head(cs).category,
                                                      Head(cs).location, Head(cs).remediation),
                                    Tail(cs))
              IN [rest EXCEPT !.made = @ + 1]
         ELSE [rs |-> add_vulnerability_raising(rs, Head(cs)), raised |-> TRUE, made |-> 1]

InitScorer ==
    /\ NoTasks
    /\ NoAnalyzers
    /\ NoPipeline
    /\ \/ /\ scorer_class = "Smart"
          /\ patterns_file = PyNone
          /\ risk_patterns = PyNone
       \/ /\ scorer_class = "Legal"
          /\ patterns_file \in PatternFiles
          /\ risk_patterns = _load_risk_patterns(patterns_file)
    /\ risk_score = RiskScore_init
    /\ calls = <<>>
    /\ last_run = NoRun

\* what an analysis leaves behind: analyze_* returns self.risk_score unless a call raised
Analysed(input_id, cs) ==
    LET r == run_calls(risk_score, cs)
    IN /\ Len(risk_score.vulnerabilities) + Len(cs) <= MaxFindings
       /\ risk_score' = r.rs
       /\ calls' = calls \o SubSeq(cs, 1, r.made)
       /\ last_run' = [kind |-> "analyze", raised |-> r.raised, input |-> input_id,
                       prev_len |-> Len(risk_score.vulnerabilities),
                       prev_total |-> risk_score.total_score]
       /\ UNCHANGED <<scorer_class, patterns_file, risk_patterns, tool_vars, pipeline_vars, task_vars>>

\* LegalContractRiskScorer.analyze_contract(contract_text)
AnalyzeContract ==
    /\ scorer_class = "Legal"
    /\ \E text \in LegalTexts : Analysed(text.id, analyze_contract(risk_patterns, text))

\* SmartContractRiskScorer.analyze_contract_code(contract_code)
AnalyzeContractCode ==
    /\ scorer_class = "Smart"
    /\ \E code \in SmartCodes : Analysed(code.id, analyze_contract_code(code))

\* a finding that carries a severity string (or none) is converted by
\* RiskLevel.from_string and added: add_vulnerability("A", "d", from_string(severity), "Security")
AddFromString ==
    \E severity \in SeverityStrings \cup {PyNone} :
        LET level == from_string(severity)
        IN /\ Len(risk_score.vulnerabilities) < MaxFindings
           /\ IF level.raised
              THEN UNCHANGED <<risk_score, calls>>
              ELSE /\ risk_score' = add_vulnerability(risk_score, "A", "d", level.value,
                                                      "Security", PyNone, PyNone)
                   /\ calls' = Append(calls, Call("A", "d", level.value, "Security", PyNone, PyNone))
           /\ last_run' = [kind |-> "add_string", severity |-> severity, raised |-> level.raised,
                           prev_len |-> Len(risk_score.vulnerabilities),
                           prev_total |-> risk_score.total_score]
           /\ UNCHANGED <<scorer_class, patterns_file, risk_patterns, tool_vars, pipeline_vars, task_vars>>

NextScorer == AnalyzeContract \/ AnalyzeContractCode \/ AddFromString \/ Reset

SpecScorer == InitScorer /\ [][NextScorer]_vars

----------------------------------------------------------------------------
(* Properties of the scorers, checked under SpecScorer *)

\* C3: running the same analysis a second time on the same input gives the same
\* report as the first time (total_score, overall level, histogram, category scores
\* and finding list): an analysis that directly follows an analysis of the same input
\* leaves the report as it was.
C3_SecondRunSameReport ==
    [][(/\ last_run.kind = "analyze" /\ ~last_run.raised
        /\ last_run'.kind = "analyze" /\ ~last_run'.raised
        /\ last_run'.input = last_run.input)
          => get_detailed_report(risk_score') = get_detailed_report(risk_score)]_vars

\* the severity strings of the model that name no level, in any case
UnrecognizedStrings == {"unknown", "Severe", ""}

\* the risk_level the patterns file gives the termination clause: a JSON value, or
\* PyNone when the file gives none
FileSeverity ==
    IF scorer_class = "Legal" /\ patterns_file.exists /\ patterns_file.valid
    THEN DictGet(patterns_file.content["missing_clauses"][1].info, "risk_level", JNull)
    ELSE JNull

FileHasSeverityKey ==
    /\ scorer_class = "Legal" /\ patterns_file.exists /\ patterns_file.valid
    /\ HasKey(patterns_file.content["missing_clauses"][1].info, "risk_level")

\* the last operation was an analysis of the text that lacks the termination clause
MissingTerminationAnalysed ==
    /\ last_run.kind = "analyze"
    /\ last_run.input = "text:This agreement covers confidentiality and liability."

\* C5 as stated: a finding with an unrecognized or missing severity string is
\* recorded, reads Unknown and adds 0 to total_score.
C5_Original ==
    /\ (last_run.kind = "add_string" /\ last_run.severity \in UnrecognizedStrings \cup {PyNone})
          => /\ Len(risk_score.vulnerabilities) = last_run.prev_len + 1
             /\ Last(risk_score.vulnerabilities).risk_level_str = "Unknown"
             /\ risk_score.total_score = last_run.prev_total
    /\ (MissingTerminationAnalysed /\ patterns_file.exists /\ patterns_file.valid
          /\ (FileSeverity.t = "null" \/ FileSeverity.v \in UnrecognizedStrings))
          => /\ Len(risk_score.vulnerabilities) = last_run.prev_len + 1
             /\ Last(risk_score.vulnerabilities).risk_level_str = "Unknown"
             /\ risk_score.total_score = last_run.prev_total

\* What the code does with such findings instead: a severity string that names no level
\* becomes Low in RiskLevel.from_string and in the pattern-file loader, adds 1 to
\* total_score and is recorded; a pattern that has no risk_level key is scored Medium.
UnrecognizedSeverityIsLow ==
    /\ (last_run.kind = "add_string" /\ last_run.severity \in UnrecognizedStrings)
          => /\ ~last_run.raised
             /\ Len(risk_score.vulnerabilities) = last_run.prev_len + 1
             /\ Last(risk_score.vulnerabilities).risk_level = LOW
             /\ Last(risk_score.vulnerabilities).risk_level_str = "Low"
             /\ risk_score.total_score = last_run.prev_total + 1
    /\ (FileHasSeverityKey /\ FileSeverity.t = "str" /\ FileSeverity.v \in UnrecognizedStrings)
          => /\ risk_patterns["missing_clauses"][1].info["risk_level"] = LOW
             /\ MissingTerminationAnalysed
                   => /\ ~last_run.raised
                      /\ Len(risk_score.vulnerabilities) = last_run.prev_len + 1
                      /\ Last(risk_score.vulnerabilities).name = "Missing termination clause"
                      /\ Last(risk_score.vulnerabilities).risk_level_str = "Low"
                      /\ risk_score.total_score = last_run.prev_total + 1
    /\ (scorer_class = "Legal" /\ patterns_file.exists /\ patterns_file.valid
          /\ ~FileHasSeverityKey /\ MissingTerminationAnalysed)
          => /\ ~last_run.raised
             /\ Len(risk_score.vulnerabilities) = last_run.prev_len + 1
             /\ Last(risk_score.vulnerabilities).name = "Missing termination clause"
             /\ Last(risk_score.vulnerabilities).risk_level_str = "Medium"
             /\ risk_score.total_score = last_run.prev_total + 3

\* a scorer whose patterns file says "Severe" has analysed a text without the
\* termination clause and has then been given a finding of severity "unknown"
UnrecognizedSeverityReached ==
    /\ FileHasSeverityKey /\ FileSeverity.t = "str" /\ FileSeverity.v = "Severe"
    /\ last_run.kind = "add_string" /\ last_run.severity = "unknown"
    /\ Len(risk_score.vulnerabilities) = 2
    /\ risk_score.vulnerabilities[1].name = "Missing termination clause"
    /\ risk_score.vulnerabilities[1].risk_level = LOW
    /\ risk_score.vulnerabilities[2].risk_level = LOW
    /\ risk_score.total_score = 2

----------------------------------------------------------------------------
(* imp_tools_integration.py: what the adapters read *)

\* the keys of MultiToolAnalyzer.analyzers
Tools == {"mythril", "oyente", "smartcheck"}

\* the 'tool' field each adapter writes
ToolLabel(tool) ==
    CASE tool = "mythril" -> "Mythril"
      [] tool = "oyente" -> "Oyente"
      [] tool = "smartcheck" -> "SmartCheck"

\* raw_output[:1000]
RawOutputLimit == 1000

\* process.stderr[:500]
StderrLimit == 500

\* A text built by an f-string is the template followed by the values put into it;
\* a plain string is a template without values.
Text(s) == <<s>>

Format(template, args) == <<template>> \o args

\* the raw outputs a tool is given in the model
MythrilOneIssue ==
    "{\"issues\": [{\"title\": \"Reentrancy\", \"severity\": \"high\", \"sourceMap\": [{\"line\": 7}]}]}"

MythrilNullSeverity == "{\"issues\": [{\"title\": \"Overflow\", \"severity\": null}]}"

\* a severity word outside the usual vocabulary
MythrilOddSeverity == "{\"issues\": [{\"title\": \"Overflow\", \"severity\": \"severe\"}]}"

MythrilText == "=== Reentrancy ===\nexternal call at line 12"

OyenteOneIssue == "{\"Bank\": {\"vulnerabilities\": {\"reentrancy\": true, \"callstack\": false}}}"

\* an issue type _get_severity_for_issue has no entry for, reported as present
OyenteUnknownType == "{\"Bank\": {\"vulnerabilities\": {\"callstack\": true}}}"

OyenteText == "======= Bank.sol:Bank =======\nreentrancy: True\ncallstack: False"

SmartCheckOneIssue ==
    "<report><issue id=\"R1\" severity=\"high\"><location line=\"3\"/></issue></report>"

SmartCheckText == "Rule: R1\nDescription: Unchecked send\nSeverity: High\nLine: 4"

\* compiler warnings printed instead of a report: 40 lines of 38 characters
LongOutput ==
    "Warning: unreachable code at Bank.sol\nWarning: unreachable code at Bank.sol\nWarning: unreachable code at Bank.sol\nWarning: unreachable code at Bank.sol\nWarning: unreachable code at Bank.sol\nWarning: unreachable code at Bank.sol\nWarning: unreachable code at Bank.sol\nWarning: unreachable code at Bank.sol\nWarning: unreachable code at Bank.sol\nWarning: unreachable code at Bank.sol\nWarning: unreachable code at Bank.sol\nWarning: unreachable code at Bank.sol\nWarning: unreachable code at Bank.sol\nWarning: unreachable code at Bank.sol\nWarning: unreachable code at Bank.sol\nWarning: unreachable code at Bank.sol\nWarning: unreachable code at Bank.sol\nWarning: unreachable code at Bank.sol\nWarning: unreachable code at Bank.sol\nWarning: unreachable code at Bank.sol\nWarning: unreachable code at Bank.sol\nWarning: unreachable code at Bank.sol\nWarning: unreachable code at Bank.sol\nWarning: unreachable code at Bank.sol\nWarning: unreachable code at Bank.sol\nWarning: unreachable code at Bank.sol\nWarning: unreachable code at Bank.sol\nWarning: unreachable code at Bank.sol\nWarning: unreachable code at Bank.sol\nWarning: unreachable code at Bank.sol\nWarning: unreachable code at Bank.sol\nWarning: unreachable code at Bank.sol\nWarning: unreachable code at Bank.sol\nWarning: unreachable code at Bank.sol\nWarning: unreachable code at Bank.sol\nWarning: unreachable code at Bank.sol\nWarning: unreachable code at Bank.sol\nWarning: unreachable code at Bank.sol\nWarning: unreachable code at Bank.sol\nWarning: unreachable code at Bank.sol\n"

BlankOutputs == {"", "\n"}

JsonOutputs ==
    {"[]", "{\"issues\": []}", MythrilOneIssue, MythrilNullSeverity, MythrilOddSeverity,
     OyenteOneIssue, OyenteUnknownType, "{\"Bank\": 5}"}

XmlOutputs == {SmartCheckOneIssue, "<report></report>"}

\* neither JSON nor XML: cut-off documents and plain text
UnstructuredOutputs ==
    {"{not json", "<report><issue", MythrilText, OyenteText, SmartCheckText, LongOutput}

RawOutputs == BlankOutputs \cup JsonOutputs \cup XmlOutputs \cup UnstructuredOutputs

StderrOutputs == {"", "solc: not found"}

\* len(s)
StrLen(s) ==
    CASE s = "" -> 0
      [] s = "\n" -> 1
      [] s = "[]" -> 2
      [] s = "{\"issues\": []}" -> 14
      [] s = MythrilOneIssue -> 85
      [] s = MythrilNullSeverity -> 53
      [] s = MythrilOddSeverity -> 57
      [] s = OyenteOneIssue -> 71
      [] s = OyenteUnknownType -> 50
      [] s = "{\"Bank\": 5}" -> 11
      [] s = SmartCheckOneIssue -> 76
      [] s = "<report></report>" -> 17
      [] s = "{not json" -> 9
      [] s = "<report><issue" -> 14
      [] s = MythrilText -> 43
      [] s = OyenteText -> 63
      [] s = SmartCheckText -> 59
      [] s = LongOutput -> 1520
      [] s = "solc: not found" -> 15
      [] s = "external call at line 12" -> 24

\* a slice that keeps the whole string
Slice_whole(s, n) == [of |-> s, len |-> StrLen(s)]

\* s[:n]: the first min(len(s), n) characters of s
Slice(s, n) == [of |-> s, len |-> IF StrLen(s) < n THEN StrLen(s) ELSE n]

\* s.strip() for the strings above: only the blank ones have whitespace at an end
Strip(s) == IF s \in BlankOutputs THEN "" ELSE s

\* s.capitalize()
Capitalize(s) ==
    CASE s = "high" -> "High"
      [] s = "severe" -> "Severe"
      [] s = "High" -> "High"
      [] s = "Unknown" -> "Unknown"
      [] s = "reentrancy" -> "Reentrancy"
      [] s = "callstack" -> "Callstack"
      [] s = "" -> ""

\* a raised exception and a returned value
Raise(type, msg) == [raised |-> TRUE, exc |-> [type |-> type, msg |-> msg]]

Return(value) == [raised |-> FALSE, value |-> value]

\* type(x).__name__ of a JSON value
TypeName(j) ==
    CASE j.t = "null" -> "NoneType"
      [] j.t = "bool" -> "bool"
      [] j.t = "int" -> "int"
      [] j.t = "str" -> "str"
      [] j.t = "list" -> "list"
      [] j.t = "dict" -> "dict"

\* x.attr where x has no such attribute
NoAttribute(j, attr) ==
    Raise("AttributeError", Format("'{}' object has no attribute '{}'", <<TypeName(j), attr>>))

\* iterating or testing membership in a value that is no container
NotIterable(j) ==
    Raise("TypeError", Format("'{}' object is not iterable", <<TypeName(j)>>))

\* bool(x) of a JSON value
Truthy(j) ==
    CASE j.t = "null" -> FALSE
      [] j.t = "bool" -> j.v
      [] j.t = "int" -> j.v # 0
      [] j.t = "str" -> j.v # ""
      [] j.t \in {"list", "dict"} -> j.v # <<>>

\* k in d, d.get(k, default) and d.items() of a JSON object
JHas(d, k) == \E i \in Indices(d.v) : d.v[i].k = k

JGet(d, k, default) ==
    IF JHas(d, k) THEN d.v[CHOOSE i \in Indices(d.v) : d.v[i].k = k].v ELSE default

JItem(k, v) == [k |-> k, v |-> v]

\* json.loads(s): the value, or JSONDecodeError
json_loads(s) ==
    CASE s = "[]" -> Return(JList(<<>>))
      [] s = "{\"issues\": []}" -> Return(JDict(<<JItem("issues", JList(<<>>))>>))
      [] s = MythrilOneIssue ->
            Return(JDict(<<JItem("issues", JList(<<
                JDict(<<JItem("title", JStr("Reentrancy")),
                        JItem("severity", JStr("high")),
                        JItem("sourceMap", JList(<<JDict(<<JItem("line", JInt(7))>>)>>))>>)>>))>>))
      [] s = MythrilNullSeverity ->
            Return(JDict(<<JItem("issues", JList(<<
                JDict(<<JItem("title", JStr("Overflow")), JItem("severity", JNull)>>)>>))>>))
      [] s = MythrilOddSeverity ->
            Return(JDict(<<JItem("issues", JList(<<
                JDict(<<JItem("title", JStr("Overflow")), JItem("severity", JStr("severe"))>>)>>))>>))
      [] s = OyenteUnknownType ->
            Return(JDict(<<JItem("Bank", JDict(<<JItem("vulnerabilities",
                JDict(<<JItem("callstack", JBool(TRUE))>>))>>))>>))
      [] s = OyenteOneIssue ->
            Return(JDict(<<JItem("Bank", JDict(<<JItem("vulnerabilities",
                JDict(<<JItem("reentrancy", JBool(TRUE)), JItem("callstack", JBool(FALSE))>>))>>))>>))
      [] s = "{\"Bank\": 5}" -> Return(JDict(<<JItem("Bank", JInt(5))>>))
      [] s \in BlankOutputs \cup XmlOutputs \cup UnstructuredOutputs ->
            Raise("JSONDecodeError", Text("Expecting value"))

\* an Element: its attributes, the text of its children and its location children
Element(attrib, text, locations) == [text |-> text, attrib |-> attrib, locations |-> locations]

\* ET.fromstring(s) followed by root.findall('.//issue'): the issue nodes, or ParseError
ET_fromstring(s) ==
    CASE s = SmartCheckOneIssue ->
            Return(<<Element([severity |-> "high", id |-> "R1"], EmptyDict, <<[line |-> "3"]>>)>>)
      [] s = "<report></report>" -> Return(<<>>)
      [] s \in BlankOutputs \cup JsonOutputs \cup UnstructuredOutputs ->
            Raise("ParseError", Text("syntax error"))

\* int(s) of a line attribute
int(s) == CASE s = "3" -> Return(3) [] OTHER -> Raise("ValueError", Text("invalid literal for int()"))

\* re.findall(r'=== (\w+) ===\n([\s\S]+?)(?=\n===|\Z)', s), with the first 'line (\d+)' of the content
MythrilMatches(s) ==
    IF s = MythrilText
    THEN <<[content |-> "external call at line 12", line_number |-> 12, issue_type |-> "Reentrancy"]>>
    ELSE <<>>

\* re.findall of the Rule/Description/Severity/Line pattern
SmartCheckMatches(s) ==
    IF s = SmartCheckText
    THEN <<[description |-> "Unchecked send", severity |-> "High", line |-> 4, rule |-> "R1"]>>
    ELSE <<>>

\* re.findall of the '======= contract =======' pattern, each with its 'name: True|False' pairs
OyenteMatches(s) ==
    IF s = OyenteText
    THEN <<[contract |-> "Bank.sol:Bank",
            details |-> <<[issue_type |-> "reentrancy", is_vulnerable |-> "True"],
                          [issue_type |-> "callstack", is_vulnerable |-> "False"]>>]>>
    ELSE <<>>

----------------------------------------------------------------------------
(* parse_results of the three adapters *)

\* s.lower() on the strings a tool result holds
str_lower(s) ==
    CASE s = "High" -> "high"
      [] s = "Medium" -> "medium"
      [] s = "Critical" -> "critical"
      [] s = "Unknown" -> "unknown"
      [] s = "True" -> "true"
      [] s = "False" -> "false"
      [] s = "reentrancy" -> "reentrancy"
      [] s = "callstack" -> "callstack"
      [] s = "" -> ""

\* issue_type.replace('_', ' '): the issue types of the model hold no underscore
replace_underscore(s) == CASE s = "reentrancy" -> "reentrancy" [] s = "callstack" -> "callstack"

\* MythrilAnalyzer.parse_results: the loop over issue['sourceMap']
RECURSIVE MythrilSourceMap(_, _)
MythrilSourceMap(sources, parsed_issue) ==
    IF sources = <<>> THEN Return(parsed_issue)
    ELSE LET source == Head(sources)
         IN CASE source.t \in {"null", "bool", "int"} ->
                    Raise("TypeError", Format("argument of type '{}' is not iterable",
                                              <<TypeName(source)>>))
              [] source.t = "dict" ->
                    LET with_line == IF JHas(source, "line")
                                     THEN [parsed_issue EXCEPT
                                              !.line_numbers = Append(@, JGet(source, "line", JNull).v)]
                                     ELSE parsed_issue
                        text == JGet(source, "source", JStr(""))
                    IN IF JHas(source, "source") /\ text.t # "str"
                       THEN Raise("TypeError", Format("unsupported operand type(s) for +: '{}' and 'str'",
                                                      <<TypeName(text)>>))
                       ELSE MythrilSourceMap(Tail(sources),
                                IF JHas(source, "source")
                                THEN [with_line EXCEPT !.code_snippet = @ \o <<text.v, "\n">>]
                                ELSE with_line)

\* MythrilAnalyzer.parse_results: one entry of mythril_results['issues']
MythrilIssue(issue) ==
    IF issue.t # "dict" THEN NoAttribute(issue, "get")
    ELSE LET severity == JGet(issue, "severity", JStr("Unknown"))
             sourceMap == JGet(issue, "sourceMap", JList(<<>>))
         IN IF severity.t # "str" THEN NoAttribute(severity, "capitalize")
            ELSE LET parsed_issue == [description |-> JGet(issue, "description", JStr("")).v,
                                      severity |-> Capitalize(severity.v),
                                      line_numbers |-> <<>>,
                                      code_snippet |-> Text(""),
                                      title |-> JGet(issue, "title", JStr("Unknown Issue")).v,
                                      swc_id |-> JGet(issue, "swc-id", JStr("")).v,
                                      confidence |-> JGet(issue, "confidence", JStr("Unknown")).v]
                 IN CASE sourceMap.t \in {"null", "bool", "int"} -> NotIterable(sourceMap)
                      [] sourceMap.t = "list" -> MythrilSourceMap(sourceMap.v, parsed_issue)

RECURSIVE MythrilIssues(_, _)
MythrilIssues(issues, parsed) ==
    IF issues = <<>> THEN Return(parsed)
    ELSE LET r == MythrilIssue(Head(issues))
         IN IF r.raised THEN r ELSE MythrilIssues(Tail(issues), Append(parsed, r.value))

\* MythrilAnalyzer.parse_results: the except json.JSONDecodeError branch
MythrilFallback(raw_output) ==
    LET matches == MythrilMatches(raw_output)
    IN [tool |-> "Mythril",
        issues |-> [i \in Indices(matches) |->
                       [description |-> Slice(Strip(matches[i].content), 200),
                        severity |-> "Unknown",
                        line_numbers |-> IF matches[i].line_number # 0
                                         THEN <<matches[i].line_number>> ELSE <<>>,
                        title |-> matches[i].issue_type]],
        raw_output |-> Slice(raw_output, RawOutputLimit),
        error_parsing |-> "Could not parse Mythril JSON output"]

\* the 'if not parsed_results[issues] and raw_output.strip()' step the three parsers share
WithRawOutput(parsed_results, raw_output) ==
    IF parsed_results.issues = <<>> /\ Strip(raw_output) # ""
    THEN DictSet(parsed_results, "raw_output", Slice(raw_output, RawOutputLimit))
    ELSE parsed_results

\* the end of the try block of a JSON parser: the issues collected, unless the loop raised
Collected(label, raw_output, r) ==
    IF r.raised THEN r
    ELSE Return(WithRawOutput([tool |-> label, issues |-> r.value], raw_output))

\* a parser that also turns to text matching when the document holds no issue
MythrilLoaded_fallback_when_empty(raw_output, mythril_results) ==
    IF mythril_results.raised THEN Return(MythrilFallback(raw_output))
    ELSE IF mythril_results.value.t # "dict" THEN NoAttribute(mythril_results.value, "get")
    ELSE LET issues == JGet(mythril_results.value, "issues", JList(<<>>))
         IN CASE issues.t \in {"null", "bool", "int"} -> NotIterable(issues)
              [] issues.t = "list" ->
                    IF issues.v = <<>> THEN Return(MythrilFallback(raw_output))
                    ELSE Collected("Mythril", raw_output, MythrilIssues(issues.v, <<>>))

\* MythrilAnalyzer.parse_results once json.loads has returned or raised
MythrilLoaded(raw_output, mythril_results) ==
    IF mythril_results.raised THEN Return(MythrilFallback(raw_output))
    ELSE IF mythril_results.value.t # "dict" THEN NoAttribute(mythril_results.value, "get")
    ELSE LET issues == JGet(mythril_results.value, "issues", JList(<<>>))
         IN CASE issues.t \in {"null", "bool", "int"} -> NotIterable(issues)
              [] issues.t = "list" -> Collected("Mythril", raw_output, MythrilIssues(issues.v, <<>>))

MythrilAnalyzer_parse_results(raw_output) ==
    IF Strip(raw_output) = ""
    THEN Return(WithRawOutput([tool |-> "Mythril", issues |-> <<>>], raw_output))
    ELSE MythrilLoaded(raw_output, json_loads(raw_output))

\* SmartCheckAnalyzer.parse_results: the loop over issue_node.findall('location')
RECURSIVE SmartCheckLines(_)
SmartCheckLines(locations) ==
    IF locations = <<>> THEN <<>>
    ELSE LET line == DictGet(Head(locations), "line", PyNone)
             rest == SmartCheckLines(Tail(locations))
         IN IF line = PyNone \/ line = "" \/ int(line).raised THEN rest
            ELSE <<int(line).value>> \o rest

SmartCheckIssue(issue_node) ==
    [description |-> DictGet(issue_node.text, "description", ""),
     severity |-> Capitalize(DictGet(issue_node.attrib, "severity", "Unknown")),
     rule |-> DictGet(issue_node.text, "rule", ""),
     line_numbers |-> SmartCheckLines(issue_node.locations),
     code_snippet |-> DictGet(issue_node.text, "snippet/code", ""),
     title |-> DictGet(issue_node.attrib, "id", "Unknown Issue"),
     pattern_id |-> DictGet(issue_node.attrib, "patternId", "")]

\* SmartCheckAnalyzer.parse_results: the except ET.ParseError branch
SmartCheckFallback(raw_output) ==
    LET matches == SmartCheckMatches(raw_output)
    IN [tool |-> "SmartCheck",
        issues |-> [i \in Indices(matches) |->
                       [description |-> matches[i].description,
                        severity |-> matches[i].severity,
                        line_numbers |-> <<matches[i].line>>,
                        title |-> matches[i].rule]],
        raw_output |-> Slice(raw_output, RawOutputLimit),
        error_parsing |-> "Could not parse SmartCheck XML output"]

SmartCheckAnalyzer_parse_results(raw_output) ==
    LET parsed_results == [tool |-> "SmartCheck", issues |-> <<>>]
    IN IF Strip(raw_output) = ""
       THEN Return(DictSet(parsed_results, "error", Text("Empty output from SmartCheck")))
       ELSE LET issue_nodes == ET_fromstring(raw_output)
            IN IF issue_nodes.raised THEN Return(SmartCheckFallback(raw_output))
               ELSE Return(WithRawOutput(
                        [parsed_results EXCEPT !.issues =
                            [i \in Indices(issue_nodes.value) |-> SmartCheckIssue(issue_nodes.value[i])]],
                        raw_output))

\* OyenteAnalyzer._get_severity_for_issue
_get_severity_for_issue(issue_type) ==
    LET key == str_lower(issue_type)
    IN CASE key = "reentrancy" -> "High"
         [] key = "timestamp_dependency" -> "Medium"
         [] key = "assertion_failure" -> "High"
         [] key = "integer_overflow" -> "High"
         [] key = "integer_underflow" -> "Medium"
         [] key = "money_concurrency" -> "High"
         [] key = "transaction_ordering_dependence" -> "Medium"
         [] key = "parity_multisig_bug" -> "Critical"
         [] OTHER -> "Medium"

\* OyenteAnalyzer.parse_results: the entry made for one detected issue type;
\* the JSON branch gives it line_numbers, the text branch does not
OyenteIssue(issue_type, contract) ==
    [description |-> Format("Oyente detected {} vulnerability", <<issue_type>>),
     severity |-> _get_severity_for_issue(issue_type),
     contract |-> contract,
     title |-> Capitalize(replace_underscore(issue_type))]

\* the loop over analysis.get('vulnerabilities', {}).items()
RECURSIVE OyenteVulnerabilities(_, _)
OyenteVulnerabilities(items, contract) ==
    IF items = <<>> THEN <<>>
    ELSE LET rest == OyenteVulnerabilities(Tail(items), contract)
         IN IF Truthy(Head(items).v)
            THEN <<DictSet(OyenteIssue(Head(items).k, contract), "line_numbers", <<>>)>> \o rest
            ELSE rest

\* the loop over oyente_results.items()
RECURSIVE OyenteContracts(_, _)
OyenteContracts(items, parsed) ==
    IF items = <<>> THEN Return(parsed)
    ELSE LET contract == Head(items).k
             analysis == Head(items).v
         IN IF analysis.t # "dict" THEN NoAttribute(analysis, "get")
            ELSE LET vulnerabilities == JGet(analysis, "vulnerabilities", JDict(<<>>))
                 IN IF vulnerabilities.t # "dict" THEN NoAttribute(vulnerabilities, "items")
                    ELSE OyenteContracts(Tail(items),
                             parsed \o OyenteVulnerabilities(vulnerabilities.v, contract))

\* OyenteAnalyzer.parse_results: the except json.JSONDecodeError branch
OyenteFallback(raw_output) ==
    LET contract_matches == OyenteMatches(raw_output)
        found(c) == SelectSeq(contract_matches[c].details,
                              LAMBDA m : str_lower(m.is_vulnerable) = "true")
    IN [tool |-> "Oyente",
        issues |-> Flatten([c \in Indices(contract_matches) |->
                      [i \in Indices(found(c)) |->
                          OyenteIssue(found(c)[i].issue_type, contract_matches[c].contract)]]),
        raw_output |-> Slice(raw_output, RawOutputLimit),
        error_parsing |-> "Could not parse Oyente JSON output"]

\* OyenteAnalyzer.parse_results once json.loads has returned or raised
OyenteLoaded(raw_output, oyente_results) ==
    IF oyente_results.raised THEN Return(OyenteFallback(raw_output))
    ELSE IF oyente_results.value.t # "dict" THEN NoAttribute(oyente_results.value, "items")
    ELSE Collected("Oyente", raw_output, OyenteContracts(oyente_results.value.v, <<>>))

OyenteAnalyzer_parse_results(raw_output) ==
    IF Strip(raw_output) = ""
    THEN Return(WithRawOutput([tool |-> "Oyente", issues |-> <<>>], raw_output))
    ELSE OyenteLoaded(raw_output, json_loads(raw_output))

parse_results(tool, raw_output) ==
    CASE tool = "mythril" -> MythrilAnalyzer_parse_results(raw_output)
      [] tool = "smartcheck" -> SmartCheckAnalyzer_parse_results(raw_output)
      [] tool = "oyente" -> OyenteAnalyzer_parse_results(raw_output)

----------------------------------------------------------------------------
(* analyze of the three adapters *)

ContractPath == "contracts/Bank.sol"

\* os.path.basename(contract_path)
basename(path) == CASE path = "contracts/Bank.sol" -> "Bank.sol"

\* What running the tool does: the contract file is gone, subprocess.run raises because
\* the binary is missing, the tool runs out of time, or the process completes.
FileMissing == [kind |-> "file_missing", returncode |-> 0, stdout |-> "", stderr |-> ""]

BinaryMissing == [kind |-> "oserror", returncode |-> 0, stdout |-> "", stderr |-> ""]

TimedOut == [kind |-> "timeout", returncode |-> 0, stdout |-> "", stderr |-> ""]

Completed(returncode, stdout, stderr) ==
    [kind |-> "completed", returncode |-> returncode, stdout |-> stdout, stderr |-> stderr]

Runs ==
    {FileMissing, BinaryMissing, TimedOut}
        \cup {Completed(rc, out, err) : rc \in {0, 1}, out \in RawOutputs, err \in StderrOutputs}

\* subprocess.run(cmd, capture_output=True, text=True, timeout=300)
subprocess_run(tool, run) ==
    CASE run.kind = "oserror" ->
            Raise("FileNotFoundError", Format("[Errno 2] No such file or directory: '{}'", <<tool>>))
      [] run.kind = "timeout" ->
            Raise("TimeoutExpired", Format("Command '{}' timed out after 300 seconds", <<tool>>))
      [] run.kind = "completed" -> Return(run)

\* the analyzers' except clauses let every exception through
except_clauses_none(tool, attempt) == attempt

\* except subprocess.TimeoutExpired / except Exception as e, around an attempt
except_clauses(tool, attempt) ==
    IF ~attempt.raised THEN attempt
    ELSE IF attempt.exc.type = "TimeoutExpired"
    THEN Return([tool |-> ToolLabel(tool),
                 error |-> Format("{} analysis timed out after 300 seconds", <<ToolLabel(tool)>>),
                 success |-> FALSE])
    ELSE Return([tool |-> ToolLabel(tool),
                 error |-> Format("Error running {}: {}", <<ToolLabel(tool)>>) \o attempt.exc.msg,
                 success |-> FALSE])

\* 'not process.stdout' in Mythril and Oyente, 'not process.stdout.strip()' in SmartCheck
NoStdout(tool, stdout) == IF tool = "smartcheck" THEN Strip(stdout) = "" ELSE stdout = ""

\* the lines between parse_results and 'success' = True: only SmartCheck has one
WithStderr(tool, results, stderr) ==
    IF tool = "smartcheck" /\ stderr # "" /\ DictGet(results, "issues", <<>>) = <<>>
    THEN DictSet(results, "stderr_output", Slice(stderr, StderrLimit))
    ELSE results

\* self.results = self.parse_results(process.stdout); self.results['success'] = True
mark_success(tool, parsed, stderr) ==
    IF parsed.raised THEN parsed
    ELSE Return(DictSet(WithStderr(tool, parsed.value, stderr), "success", TRUE))

\* the try block of analyze
try_analyze(tool, run) ==
    LET process == subprocess_run(tool, run)
    IN IF process.raised THEN process
       ELSE IF process.value.returncode # 0 /\ NoStdout(tool, process.value.stdout)
       THEN Return([tool |-> ToolLabel(tool),
                    error |-> Format("{} analysis failed: {}",
                                     <<ToolLabel(tool), process.value.stderr>>),
                    success |-> FALSE])
       ELSE mark_success(tool, parse_results(tool, process.value.stdout), process.value.stderr)

\* MythrilAnalyzer.analyze, SmartCheckAnalyzer.analyze, OyenteAnalyzer.analyze:
\* the value assigned to self.results and returned
analyze(tool, run) ==
    IF run.kind = "file_missing"
    THEN IF tool = "mythril"
         THEN Return([error |-> Format("File not found: {}", <<ContractPath>>)])
         ELSE Return([tool |-> ToolLabel(tool),
                      error |-> Format("File not found: {}", <<ContractPath>>),
                      success |-> FALSE])
    ELSE except_clauses(tool, try_analyze(tool, run))

\* create_analyzer(analyzer_type) for the three tools: a new analyzer, its results empty
create_analyzer(analyzer_type) == [tool |-> analyzer_type, results |-> EmptyDict]

----------------------------------------------------------------------------
(* MultiToolAnalyzer *)

\* the longest tools list analyze_contract is given in the model
MaxTools == 2

\* the names a caller asks for: the three tools and one that does not exist
ToolNames == Tools \cup {"slither"}

RECURSIVE SeqsUpTo(_, _)
SeqsUpTo(S, n) ==
    IF n = 0 THEN {<<>>}
    ELSE LET shorter == SeqsUpTo(S, n - 1)
         IN shorter \cup {Append(q, x) : q \in shorter, x \in S}

ToolLists == SeqsUpTo(ToolNames, MaxTools)

\* the tools argument: None by default, or a list
ToolsArguments ==
    {[given |-> FALSE, list |-> <<>>]} \cup {[given |-> TRUE, list |-> q] : q \in ToolLists}

\* list(self.analyzers.keys())
AllTools == <<"mythril", "oyente", "smartcheck">>

\* nothing is run for a name that is no analyzer
NotRun == [kind |-> "not_run", returncode |-> 0, stdout |-> "", stderr |-> ""]

\* what a tool does when MultiToolAnalyzer runs it
MultiRuns(tool) ==
    IF tool \notin Tools THEN {NotRun}
    ELSE {FileMissing, BinaryMissing, TimedOut,
          Completed(1, "", "solc: not found"),
          Completed(0, "[]", ""),
          Completed(0, CASE tool = "mythril" -> MythrilOneIssue
                         [] tool = "oyente" -> OyenteOneIssue
                         [] tool = "smartcheck" -> SmartCheckOneIssue, "")}

\* one run for each requested tool, in the order of the list
RECURSIVE RunSeqs(_)
RunSeqs(tools) ==
    IF tools = <<>> THEN {<<>>}
    ELSE {<<r>> \o q : r \in MultiRuns(Head(tools)), q \in RunSeqs(Tail(tools))}

\* MultiToolAnalyzer.__init__
MultiToolAnalyzer_init == [t \in Tools |-> EmptyDict]

\* the severity counters of one successful tool result
CountSeverity(issues, bucket) ==
    Cardinality({i \in Indices(issues) :
        LET severity == str_lower(DictGet(issues[i], "severity", ""))
        IN CASE bucket = "high_severity" -> severity \in {"high", "critical"}
             [] bucket = "medium_severity" -> severity = "medium"
             [] bucket = "low_severity" -> severity \notin {"high", "critical", "medium"}})

\* the lines of the loop body after the call of analyze: called is what the call did
record_result(st, tool_name, called) ==
    IF called.raised THEN [st EXCEPT !.raised = TRUE, !.exc = called.exc]
    ELSE LET tool_result == called.value
             counted == DictGet(tool_result, "success", FALSE) /\ HasKey(tool_result, "issues")
             issues == IF counted THEN tool_result.issues ELSE <<>>
         IN [st EXCEPT
                !.analyzers[tool_name] = tool_result,
                !.combined_results.tool_results = DictSet(@, tool_name, tool_result),
                !.successful_tools = IF counted THEN @ + 1 ELSE @,
                !.total_issues = @ + Len(issues),
                !.combined_results.summary.high_severity =
                    @ + CountSeverity(issues, "high_severity"),
                !.combined_results.summary.medium_severity =
                    @ + CountSeverity(issues, "medium_severity"),
                !.combined_results.summary.low_severity =
                    @ + CountSeverity(issues, "low_severity")]

\* one round of 'for tool_name in tools'
tool_round(st, tool_name, run) ==
    IF tool_name \notin Tools
    THEN [st EXCEPT !.combined_results.tool_results =
             DictSet(@, tool_name, [error |-> Format("Unknown tool: {}", <<tool_name>>),
                                    success |-> FALSE])]
    ELSE record_result(st, tool_name, analyze(tool_name, run))

RECURSIVE tool_rounds(_, _, _)
tool_rounds(st, tools, runs) ==
    IF tools = <<>> \/ st.raised THEN st
    ELSE tool_rounds(tool_round(st, Head(tools), Head(runs)), Tail(tools), Tail(runs))

\* 'if not tools: tools = list(self.analyzers.keys())'
RequestedTools(tools) == IF ~tools.given \/ tools.list = <<>> THEN AllTools ELSE tools.list

\* MultiToolAnalyzer.analyze_contract(contract_path, tools) on an existing file:
\* the analyzers and combined_results it leaves behind, and whether it raised
\* the summary written after the loop, unless a round raised
update_summary(done, requested_tools) ==
    IF done.raised THEN done
    ELSE [done EXCEPT !.combined_results.summary =
             [successful_tools |-> done.successful_tools,
              total_issues |-> done.total_issues,
              high_severity |-> @.high_severity,
              medium_severity |-> @.medium_severity,
              low_severity |-> @.low_severity,
              requested_tools |-> requested_tools]]

\* the lines before the loop: the counters, and the new self.combined_results
before_rounds(the_analyzers) ==
    [analyzers |-> the_analyzers,
     combined_results |->
         [summary |-> [total_issues |-> 0, high_severity |-> 0,
                       medium_severity |-> 0, low_severity |-> 0],
          tool_results |-> EmptyDict,
          contract_path |-> ContractPath,
          filename |-> basename(ContractPath)],
     raised |-> FALSE,
     exc |-> PyNone,
     successful_tools |-> 0,
     total_issues |-> 0]

analyze_contract_multi(the_analyzers, tools, runs) ==
    update_summary(tool_rounds(before_rounds(the_analyzers), RequestedTools(tools), runs),
                   Len(RequestedTools(tools)))

----------------------------------------------------------------------------
(* One analyzer made by create_analyzer, called directly *)

\* no scorer has been created
NoScorer ==
    /\ scorer_class = PyNone
    /\ patterns_file = PyNone
    /\ risk_patterns = PyNone
    /\ risk_score = PyNone
    /\ calls = <<>>
    /\ last_run = NoRun

InitAdapter ==
    /\ NoTasks
    /\ NoScorer
    /\ NoPipeline
    /\ analyzer \in {create_analyzer(t) : t \in Tools}
    /\ last_call = NoCall
    /\ analyzers = PyNone
    /\ combined_results = PyNone
    /\ multi_call = NoCall

\* analyzer.analyze(contract_path)
Analyze ==
    \E run \in Runs :
        \E r \in {analyze(analyzer.tool, run)} :
           /\ analyzer' = IF r.raised THEN analyzer ELSE [analyzer EXCEPT !.results = r.value]
           /\ last_call' = [op |-> "analyze", raised |-> r.raised, input |-> run,
                            ret |-> IF r.raised THEN r.exc ELSE r.value]
           /\ UNCHANGED <<scorer_vars, task_vars, pipeline_vars, analyzers, combined_results, multi_call>>

\* analyzer.parse_results(raw_output)
ParseResults ==
    \E raw_output \in RawOutputs :
        \E r \in {parse_results(analyzer.tool, raw_output)} :
           /\ last_call' = [op |-> "parse_results", raised |-> r.raised, input |-> raw_output,
                            ret |-> IF r.raised THEN r.exc ELSE r.value]
           /\ UNCHANGED <<scorer_vars, task_vars, pipeline_vars, analyzer, analyzers, combined_results, multi_call>>

NextAdapter == Analyze \/ ParseResults

SpecAdapter == InitAdapter /\ [][NextAdapter]_vars

----------------------------------------------------------------------------
(* A MultiToolAnalyzer *)

InitMulti ==
    /\ NoTasks
    /\ NoScorer
    /\ NoPipeline
    /\ analyzer = PyNone
    /\ last_call = NoCall
    /\ analyzers = MultiToolAnalyzer_init
    /\ combined_results = EmptyDict
    /\ multi_call = NoCall

\* MultiToolAnalyzer(): a new object replaces the one in use
NewMultiToolAnalyzer ==
    /\ analyzers' = MultiToolAnalyzer_init
    /\ combined_results' = EmptyDict
    /\ multi_call' = NoCall
    /\ UNCHANGED <<scorer_vars, task_vars, pipeline_vars, analyzer, last_call>>

\* analyze_contract(contract_path, tools) when the contract file does not exist:
\* it returns before it reads tools
AnalyzeMissingContract ==
    /\ multi_call' = [op |-> "analyze_contract", raised |-> FALSE,
                      exists |-> FALSE, runs |-> <<>>, ret |-> [error |-> Format("Contract file not found: {}", <<ContractPath>>)],
                      requested |-> <<>>]
    /\ UNCHANGED <<scorer_vars, task_vars, pipeline_vars, analyzer, last_call, analyzers, combined_results>>

\* analyze_contract(contract_path, tools) on an existing file, the first call made on the
\* object: every requested tool in turn
AnalyzeContractMulti ==
    /\ multi_call = NoCall
    /\ \E tools \in ToolsArguments :
          \E runs \in RunSeqs(RequestedTools(tools)) :
              \E done \in {analyze_contract_multi(analyzers, tools, runs)} :
                 /\ analyzers' = done.analyzers
                 /\ combined_results' = done.combined_results
                 /\ multi_call' = [op |-> "analyze_contract", raised |-> done.raised,
                                   exists |-> TRUE, runs |-> runs,
                                   ret |-> IF done.raised THEN done.exc ELSE done.combined_results,
                                   requested |-> RequestedTools(tools)]
                 /\ UNCHANGED <<scorer_vars, task_vars, pipeline_vars, analyzer, last_call>>

NextMulti == NewMultiToolAnalyzer \/ AnalyzeMissingContract \/ AnalyzeContractMulti

SpecMulti == InitMulti /\ [][NextMulti]_vars

----------------------------------------------------------------------------
(* Properties of the adapters *)

\* documents that are neither valid JSON nor valid XML: what a cut-off or garbled
\* structured output looks like to every adapter
InvalidStructured == {"{not json", "<report><issue"}

\* the last call was analyze, and the tool completed and printed an invalid document
AnalyzedInvalidOutput ==
    /\ last_call.op = "analyze"
    /\ last_call.input.kind = "completed"
    /\ last_call.input.stdout \in InvalidStructured

\* C8 as stated: an adapter given truncated or invalid structured output returns
\* success = false and a non-empty error field; such a run is never marked success = true.
C8_InvalidOutputIsFailure ==
    AnalyzedInvalidOutput
        => /\ ~last_call.raised
           /\ DictGet(last_call.ret, "success", TRUE) = FALSE
           /\ HasKey(last_call.ret, "error")
           /\ last_call.ret.error # Text("")

\* What analyze does with such output instead: parse_results falls back to text matching,
\* keeps the raw output with an error_parsing note, and analyze marks the run success = true.
InvalidOutputIsMarkedSuccess ==
    AnalyzedInvalidOutput
        => /\ ~last_call.raised
           /\ last_call.ret.success = TRUE
           /\ ~HasKey(last_call.ret, "error")
           /\ HasKey(last_call.ret, "error_parsing")
           /\ last_call.ret.issues = <<>>
           /\ last_call.ret.raw_output = Slice(last_call.input.stdout, RawOutputLimit)
           /\ analyzer.results = last_call.ret

\* C9 as stated: parse_results of every adapter never raises, whatever the raw output;
\* it always returns a result value.
C9_ParseResultsNeverRaises ==
    last_call.op = "parse_results"
        => /\ ~last_call.raised
           /\ HasKey(last_call.ret, "issues")

\* Where the parsers do and do not raise: never on blank output or on text that is not
\* JSON/XML at all, never in SmartCheck; the JSON parsers raise on a document of another shape.
ParseResultsRaisesOnlyOnShape ==
    last_call.op = "parse_results"
        => /\ last_call.raised =>
                 /\ analyzer.tool \in {"mythril", "oyente"}
                 /\ last_call.input \in JsonOutputs
                 /\ last_call.ret.type \in {"AttributeError", "TypeError"}
           /\ (analyzer.tool = "mythril" /\ last_call.input \in {"[]", MythrilNullSeverity})
                 => last_call.raised
           /\ (analyzer.tool = "oyente" /\ last_call.input \in {"[]", "{\"Bank\": 5}"})
                 => last_call.raised

\* the way one requested tool failed, "none" when it did not
Failure(tool_name, run) ==
    CASE tool_name \notin Tools -> "unknown tool"
      [] run.kind = "oserror" -> "binary missing"
      [] run.kind = "timeout" -> "timeout"
      [] run.kind = "completed" /\ run.returncode # 0 /\ run.stdout = "" -> "exit without output"
      [] run.kind = "completed" /\ run.stdout = "[]" /\ tool_name \in {"mythril", "oyente"}
            -> "exception"
      [] OTHER -> "none"

\* the last round of a tool name in the requested list: a later round replaces the entry
LastRound(requested, i) == \A j \in Indices(requested) : requested[j] = requested[i] => j <= i

\* C10: a failure of one tool (unknown name, missing binary, non-zero exit with no output,
\* timeout, any exception) is recorded as {error, success = false} and never as a crash,
\* and the other requested tools still run: analyze_contract returns a tool_results
\* entry for every requested tool.
C10_ToolFailureIsRecorded ==
    (multi_call.op = "analyze_contract" /\ multi_call.exists)
        => /\ ~multi_call.raised
           /\ multi_call.ret = combined_results
           /\ DOMAIN combined_results.tool_results
                 = {multi_call.requested[i] : i \in Indices(multi_call.requested)}
           /\ combined_results.summary.requested_tools = Len(multi_call.requested)
           /\ \A i \in Indices(multi_call.requested) :
                 LET tool_name == multi_call.requested[i]
                     tool_result == combined_results.tool_results[tool_name]
                 IN /\ (LastRound(multi_call.requested, i)
                          /\ Failure(tool_name, multi_call.runs[i]) # "none")
                       => /\ HasKey(tool_result, "error")
                          /\ tool_result.error # Text("")
                          /\ tool_result.success = FALSE
                    /\ (LastRound(multi_call.requested, i)
                          /\ multi_call.runs[i].kind = "completed"
                          /\ multi_call.runs[i].stdout \in {MythrilOneIssue, OyenteOneIssue,
                                                            SmartCheckOneIssue})
                       => /\ tool_result.success = TRUE
                          /\ Len(tool_result.issues) = 1

\* mythril timed out, and smartcheck, asked for after it, still ran and reported its issue
C10_Witness ==
    /\ multi_call.op = "analyze_contract" /\ multi_call.exists
    /\ multi_call.requested = <<"mythril", "smartcheck">>
    /\ multi_call.runs[1] = TimedOut
    /\ combined_results.tool_results["mythril"].success = FALSE
    /\ combined_results.tool_results["smartcheck"].success = TRUE
    /\ Len(combined_results.tool_results["smartcheck"].issues) = 1
    /\ combined_results.summary.successful_tools = 1

----------------------------------------------------------------------------
(* Structured parsing and the textual fallback *)

\* the structured reading an adapter tries first: json.loads, or ET.fromstring for SmartCheck
StructuredDocument(tool, raw_output) ==
    IF tool = "smartcheck" THEN ET_fromstring(raw_output) ELSE json_loads(raw_output)

\* the last call was parse_results and it returned
Parsed == last_call.op = "parse_results" /\ ~last_call.raised

\* the except branch of the parser ran: it is the only place that sets error_parsing
UsedFallback == Parsed /\ HasKey(last_call.ret, "error_parsing")

\* the titles of the findings each document of the model holds for each tool
DocumentTitles(tool, raw_output) ==
    CASE tool = "mythril" /\ raw_output = MythrilOneIssue -> <<"Reentrancy">>
      [] tool = "mythril" /\ raw_output = MythrilOddSeverity -> <<"Overflow">>
      [] tool = "oyente" /\ raw_output = OyenteOneIssue -> <<"Reentrancy">>
      [] tool = "oyente" /\ raw_output = OyenteUnknownType -> <<"Callstack">>
      [] tool = "smartcheck" /\ raw_output = SmartCheckOneIssue -> <<"R1">>
      [] OTHER -> <<>>

\* C12: the textual fallback runs only when structured parsing (JSON or XML) of the raw
\* output failed; when structured parsing succeeds the findings returned are exactly those
\* of the document, also when that is none, and no fallback finding is mixed in.
C12_FallbackOnlyOnParseFailure ==
    Parsed =>
        /\ UsedFallback
              => /\ Strip(last_call.input) # ""
                 /\ StructuredDocument(analyzer.tool, last_call.input).raised
        /\ (Strip(last_call.input) # ""
              /\ ~StructuredDocument(analyzer.tool, last_call.input).raised)
              => /\ ~UsedFallback
                 /\ [i \in Indices(last_call.ret.issues) |-> last_call.ret.issues[i].title]
                       = DocumentTitles(analyzer.tool, last_call.input)

\* Mythril parsed a valid document that holds no issue and returned no finding from it
C12_Witness ==
    /\ Parsed
    /\ analyzer.tool = "mythril"
    /\ last_call.input = "{\"issues\": []}"
    /\ last_call.ret.issues = <<>>
    /\ ~UsedFallback

\* the fields a finding read from a structured document has, per tool
StructuredFields(tool) ==
    CASE tool = "mythril" -> {"title", "description", "severity", "line_numbers",
                              "code_snippet", "swc_id", "confidence"}
      [] tool = "smartcheck" -> {"title", "description", "severity", "line_numbers",
                                 "code_snippet", "pattern_id", "rule"}
      [] tool = "oyente" -> {"title", "description", "severity", "line_numbers", "contract"}

\* C13 as stated: every finding recovered by the textual fallback has confidence = Unknown
\* and carries a field that marks it as fallback-derived, for Mythril, SmartCheck and Oyente.
C13_FallbackFindingsAreMarked ==
    UsedFallback =>
        \A i \in Indices(last_call.ret.issues) :
            LET issue == last_call.ret.issues[i]
            IN /\ HasKey(issue, "confidence")
               /\ issue.confidence = "Unknown"
               /\ DOMAIN issue \ StructuredFields(analyzer.tool) # {}

\* What the fallbacks return instead: findings without a confidence field and without any
\* field of their own; only the enclosing result says that parsing failed.
FallbackFindingsAreBare ==
    UsedFallback =>
        /\ last_call.ret.error_parsing # ""
        /\ \A i \in Indices(last_call.ret.issues) :
              /\ ~HasKey(last_call.ret.issues[i], "confidence")
              /\ DOMAIN last_call.ret.issues[i] \subseteq StructuredFields(analyzer.tool)

\* a fallback recovered a finding
FallbackFindingReached == UsedFallback /\ last_call.ret.issues # <<>>

\* the normalized severity values
NormalizedSeverities == {"Critical", "High", "Medium", "Low", "Informational", "Unknown"}

\* the Oyente issue types _get_severity_for_issue has an entry for
OyenteIssueTypes ==
    {"reentrancy", "timestamp_dependency", "assertion_failure", "integer_overflow",
     "integer_underflow", "money_concurrency", "transaction_ordering_dependence",
     "parity_multisig_bug"}

\* C14 as stated: every finding an adapter returns has a severity in the normalized set,
\* a severity word (or Oyente issue type) the tool's table does not hold becomes Unknown,
\* and the finding is kept.
C14_SeverityIsNormalized ==
    Parsed =>
        /\ \A i \in Indices(last_call.ret.issues) :
              last_call.ret.issues[i].severity \in NormalizedSeverities
        /\ (analyzer.tool = "mythril" /\ last_call.input = MythrilOddSeverity)
              => /\ Len(last_call.ret.issues) = 1
                 /\ last_call.ret.issues[1].severity = "Unknown"
        /\ (analyzer.tool = "oyente" /\ last_call.input = OyenteUnknownType)
              => /\ Len(last_call.ret.issues) = 1
                 /\ last_call.ret.issues[1].severity = "Unknown"

\* What the adapters do instead: the finding is kept, Mythril passes the tool's word on
\* capitalized, and Oyente gives an issue type outside its table Medium.
UnlistedSeverityIsPassedOn ==
    Parsed =>
        /\ (analyzer.tool = "mythril" /\ last_call.input = MythrilOddSeverity)
              => /\ Len(last_call.ret.issues) = 1
                 /\ last_call.ret.issues[1].severity = "Severe"
        /\ (analyzer.tool = "oyente" /\ last_call.input = OyenteUnknownType)
              => /\ Len(last_call.ret.issues) = 1
                 /\ "callstack" \notin OyenteIssueTypes
                 /\ last_call.ret.issues[1].severity = "Medium"

\* the raw output given to the last call, when the adapter tried to parse it and failed
FailedToParse(raw_output) ==
    /\ Strip(raw_output) # ""
    /\ StructuredDocument(analyzer.tool, raw_output).raised

\* the result keeps a prefix of raw_output of at most RawOutputLimit characters
PreservesRawOutput(result, raw_output) ==
    /\ HasKey(result, "raw_output")
    /\ result.raw_output.of = raw_output
    /\ result.raw_output.len <= RawOutputLimit
    /\ result.raw_output.len <= StrLen(raw_output)
    /\ result.raw_output.len = StrLen(raw_output) \/ result.raw_output.len = RawOutputLimit

\* C15: on a structured-parse failure the result preserves the raw output, as a prefix of
\* the original of at most 1000 characters, whatever the length of the raw output;
\* parse_results called directly, and analyze on the stdout of a completed run.
C15_RawOutputIsPreserved ==
    /\ (Parsed /\ FailedToParse(last_call.input))
          => PreservesRawOutput(last_call.ret, last_call.input)
    /\ (last_call.op = "analyze" /\ ~last_call.raised /\ last_call.input.kind = "completed"
          /\ FailedToParse(last_call.input.stdout)
          /\ DictGet(last_call.ret, "success", FALSE) = TRUE)
          => PreservesRawOutput(last_call.ret, last_call.input.stdout)

\* a raw output longer than the limit failed to parse and was kept cut to the limit
C15_Witness ==
    /\ Parsed
    /\ last_call.input = LongOutput
    /\ StrLen(last_call.input) > RawOutputLimit
    /\ last_call.ret.raw_output.len = RawOutputLimit
    /\ last_call.ret.raw_output.of = LongOutput

----------------------------------------------------------------------------
(* The detection script, scripts/loophole_detection.py: its inputs *)

\* the largest number of lines of the contract under analysis
MaxLines == 2

\* the lines a contract of the model is made of
SourceLines ==
    {"require(tx.origin == owner);",
     "x.call.value(amount)()",
     "y.call.value(total)()",
     "uint256 public totalSupply;",
     "if (block.timestamp > deadline) { count += 1; }",
     "  TX.ORIGIN  ",
     "msg.sender.call(data);"}

\* the contract file: absent, or its text as content.splitlines() gives it
ContractFiles ==
    {Absent} \cup {[kind |-> "text", lines |-> c] : c \in SeqsUpTo(SourceLines, MaxLines)}

\* line.strip(): one line of the model has blanks at its ends
line_strip(line) == IF line = "  TX.ORIGIN  " THEN "TX.ORIGIN" ELSE line

\* len(code_line) of a stripped line
CodeLineLen(code_line) ==
    CASE code_line = "require(tx.origin == owner);" -> 28
      [] code_line = "x.call.value(amount)()" -> 22
      [] code_line = "y.call.value(total)()" -> 21
      [] code_line = "uint256 public totalSupply;" -> 27
      [] code_line = "if (block.timestamp > deadline) { count += 1; }" -> 47
      [] code_line = "TX.ORIGIN" -> 9
      [] code_line = "msg.sender.call(data);" -> 22
      [] code_line = "i++;" -> 4
      [] code_line = "" -> 0

CUSTOM_RULES ==
    <<[name |-> "Timestamp_Dependency",
       description |-> "Use of block.timestamp, can be manipulated by miners.",
       severity |-> "Medium",
       pattern |-> "block\\.timestamp"],
      [name |-> "TX_Origin_Usage",
       description |-> "Use of tx.origin for authentication, vulnerable to phishing.",
       severity |-> "High",
       pattern |-> "tx\\.origin"],
      [name |-> "Integer_Overflow_Underflow_Candidate_Basic",
       description |-> "Potential basic integer arithmetic operation, needs careful review for overflow/underflow. Slither is much better at this.",
       severity |-> "Low",
       pattern |-> "\\w+\\s*(\\+\\+|--|\\+=|-=|\\*=|/=)\\s*\\w+"],
      [name |-> "Low_Level_Call",
       description |-> "Use of low-level calls (.call, .delegatecall, .staticcall), requires careful handling of return values and gas.",
       severity |-> "Medium",
       pattern |-> "\\.(call|delegatecall|staticcall)\\s*\\("]>>

\* re.search(pattern, line, re.IGNORECASE) is not None, for the patterns of CUSTOM_RULES
\* on the lines of the model
re_search(pattern, line) ==
    CASE pattern = "block\\.timestamp" ->
            line = "if (block.timestamp > deadline) { count += 1; }"
      [] pattern = "tx\\.origin" ->
            line \in {"require(tx.origin == owner);", "  TX.ORIGIN  "}
      [] pattern = "\\w+\\s*(\\+\\+|--|\\+=|-=|\\*=|/=)\\s*\\w+" ->
            line = "if (block.timestamp > deadline) { count += 1; }"
      [] pattern = "\\.(call|delegatecall|staticcall)\\s*\\(" ->
            line = "msg.sender.call(data);"

\* the element a custom or model finding points at
line_element(line, line_num, filename) ==
    [name |-> line_strip(line),
     type |-> "line",
     source_mapping |-> [lines |-> <<line_num>>, start |-> -1, length |-> -1,
                         filename_relative |-> filename]]

\* apply_custom_rules: the findings.append of one matching rule
custom_finding(rule, line, line_num) ==
    [description |-> Format("{} (Custom Rule Match)", <<rule.description>>),
     confidence |-> "Medium",
     check |-> rule.name,
     impact |-> rule.severity,
     elements |-> <<line_element(line, line_num, basename(ContractPath))>>]

\* a variant that reports a line once, whatever number of rules match it
apply_custom_rules_once_per_line(contract) ==
    IF contract.kind = "absent" THEN <<>>
    ELSE Flatten([line_num \in Indices(contract.lines) |->
            LET matching == SelectSeq(CUSTOM_RULES,
                                LAMBDA rule : re_search(rule.pattern, contract.lines[line_num]))
            IN IF matching = <<>> THEN <<>>
               ELSE <<custom_finding(Head(matching), contract.lines[line_num], line_num)>>])

\* apply_custom_rules(filepath): every line against every rule, in that order; a file
\* that cannot be read gives no finding
apply_custom_rules(contract) ==
    IF contract.kind = "absent" THEN <<>>
    ELSE Flatten([line_num \in Indices(contract.lines) |->
            LET matching == SelectSeq(CUSTOM_RULES,
                                LAMBDA rule : re_search(rule.pattern, contract.lines[line_num]))
            IN [j \in Indices(matching) |->
                   custom_finding(matching[j], contract.lines[line_num], line_num)]])

\* a detector result as Slither reports it
SlitherFinding ==
    [description |-> Text("Reentrancy in Bank.withdraw()"),
     confidence |-> "Medium",
     check |-> "reentrancy-eth",
     impact |-> "High",
     elements |-> <<[name |-> "withdraw",
                     type |-> "function",
                     source_mapping |-> [lines |-> <<12>>, start |-> 120, length |-> 80,
                                         filename_relative |-> "Bank.sol"]]>>]

\* what running the slither command does: the binary is missing, the process cannot be
\* started, it writes no JSON file, it writes a cut-off one, or it writes its report
SlitherRuns ==
    {[kind |-> "not_found", stderr |-> "", data |-> EmptyDict],
     [kind |-> "oserror", stderr |-> "", data |-> EmptyDict],
     [kind |-> "no_output", stderr |-> "Error: solc 0.4.24 is not installed", data |-> EmptyDict],
     [kind |-> "invalid_json", stderr |-> "", data |-> EmptyDict],
     [kind |-> "json", stderr |-> "",
      data |-> [error |-> PyNone, success |-> TRUE, results |-> [detectors |-> <<SlitherFinding>>]]],
     [kind |-> "json", stderr |-> "",
      data |-> [error |-> PyNone, success |-> TRUE, results |-> EmptyDict]],
     [kind |-> "json", stderr |-> "Compilation failed",
      data |-> [error |-> "Compilation failed", success |-> FALSE, results |-> EmptyDict]]}

\* the dict run_slither_analysis returns when Slither gave no report
slither_failure(error) ==
    [error |-> error, success |-> FALSE, results |-> [detectors |-> <<>>]]

\* run_slither_analysis(filepath)
run_slither_analysis(run) ==
    CASE run.kind = "not_found" -> slither_failure("Slither not found")
      [] run.kind = "oserror" -> slither_failure("[Errno 13] Permission denied: 'slither'")
      [] run.kind = "no_output" ->
            DictSet(slither_failure("Slither failed to produce output JSON."), "details", run.stderr)
      [] run.kind = "invalid_json" ->
            DictSet(DictSet(slither_failure("Invalid JSON output from Slither"),
                            "raw_output", "{\"success\": tr"),
                    "slither_stderr", run.stderr)
      [] run.kind = "json" ->
            IF run.stderr # "" /\ ~DictGet(run.data, "success", TRUE)
            THEN DictSet(run.data, "slither_stderr", run.stderr)
            ELSE run.data

----------------------------------------------------------------------------
(* The training script, scripts/train_model.py (src/train_model.py has the same loop) *)

\* the largest number of detection reports one training pass reads
MaxReports == 2

\* a dict whose iteration order matters is the sequence of its items, in insertion order
ItemsHas(items, k) == \E i \in Indices(items) : items[i].k = k

ItemsGet(items, k, default) ==
    IF ItemsHas(items, k) THEN items[CHOOSE i \in Indices(items) : items[i].k = k].v
    ELSE default

ItemsSet(items, k, v) ==
    IF ItemsHas(items, k)
    THEN [i \in Indices(items) |-> IF items[i].k = k THEN JItem(k, v) ELSE items[i]]
    ELSE Append(items, JItem(k, v))

\* x in list
InList(x, list) == \E i \in Indices(list) : list[i] = x

\* findings with line elements, as an earlier detection report may hold them
ReentrancyLineFinding ==
    [description |-> Text("External call before state update"),
     confidence |-> "Medium",
     check |-> "reentrancy",
     impact |-> "High",
     elements |-> <<line_element("x.call.value(amount)()", 7, "Bank.sol")>>]

TxOriginLineFinding ==
    [description |-> Text("tx.origin used for authorization"),
     confidence |-> "High",
     check |-> "TX_Origin_Usage",
     impact |-> "High",
     elements |-> <<line_element("require(tx.origin == owner);", 3, "Wallet.sol")>>]

ShortLineFinding ==
    [description |-> Text("Counter changed after call"),
     confidence |-> "Low",
     check |-> "reentrancy",
     impact |-> "Low",
     elements |-> <<line_element("i++;", 9, "Bank.sol")>>]

\* a detection report file: cut off, or the findings train_model reads from it;
\* vulnerable says that its path holds the word 'vulnerable'
InvalidReport == [kind |-> "invalid", value |-> EmptyDict, vulnerable |-> FALSE]

DetectionReport(vulnerable, slither_findings, lines) ==
    [kind |-> "json", value |-> [slither_findings |-> slither_findings,
                custom_findings |-> apply_custom_rules([kind |-> "text", lines |-> lines])],
     vulnerable |-> vulnerable]

TrainingReports ==
    {InvalidReport,
     DetectionReport(TRUE, <<ReentrancyLineFinding>>, <<"x.call.value(amount)()">>)}
        \cup {DetectionReport(FALSE, s, c) :
                s \in {<<>>,
                       <<SlitherFinding, ReentrancyLineFinding>>,
                       <<TxOriginLineFinding, ShortLineFinding>>},
                c \in {<<"require(tx.origin == owner);", "require(tx.origin == owner);">>,
                       <<"if (block.timestamp > deadline) { count += 1; }">>,
                       <<"  TX.ORIGIN  ", "require(tx.origin == owner);">>}}

\* the lines 'if code_line and len(code_line) > 5' to '.append(code_line)', a variant that
\* appends without looking at the list
add_code_line_always(code_patterns, vuln_type, code_line) ==
    IF code_line # "" /\ CodeLineLen(code_line) > 5
    THEN ItemsSet(code_patterns, vuln_type,
                  Append(ItemsGet(code_patterns, vuln_type, <<>>), code_line))
    ELSE code_patterns

\* the lines 'if code_line and len(code_line) > 5' to '.append(code_line)'
add_code_line(code_patterns, vuln_type, code_line) ==
    IF code_line # "" /\ CodeLineLen(code_line) > 5
    THEN LET listed == ItemsGet(code_patterns, vuln_type, <<>>)
         IN ItemsSet(code_patterns, vuln_type,
                     IF InList(code_line, listed) THEN listed ELSE Append(listed, code_line))
    ELSE code_patterns

\* the loop over finding.get('elements', [])
RECURSIVE train_elements(_, _, _)
train_elements(code_patterns, vuln_type, elements) ==
    IF elements = <<>> THEN code_patterns
    ELSE train_elements(
            IF DictGet(Head(elements), "type", PyNone) = "line"
            THEN add_code_line(code_patterns, vuln_type,
                               line_strip(DictGet(Head(elements), "name", "")))
            ELSE code_patterns,
            vuln_type, Tail(elements))

\* the loop over the findings of one kind of one report
RECURSIVE train_findings(_, _)
train_findings(st, findings) ==
    IF findings = <<>> THEN st
    ELSE LET finding == Head(findings)
             vuln_type == DictGet(finding, "check", "unknown")
         IN train_findings(
                [st EXCEPT
                    !.vulnerability_counts =
                        ItemsSet(@, vuln_type, ItemsGet(@, vuln_type, 0) + 1),
                    !.code_patterns =
                        train_elements(@, vuln_type, DictGet(finding, "elements", <<>>))],
                Tail(findings))

\* the loop over detection_files; a report that cannot be loaded is skipped
RECURSIVE train_reports(_, _)
train_reports(st, reports) ==
    IF reports = <<>> THEN st
    ELSE LET report == Head(reports)
             counted == [st EXCEPT
                            !.contract_count = @ + 1,
                            !.vulnerable_contract_count = IF report.vulnerable THEN @ + 1 ELSE @]
         IN train_reports(
                IF report.kind = "invalid" THEN st
                ELSE train_findings(
                        train_findings(counted, DictGet(report.value, "slither_findings", <<>>)),
                        DictGet(report.value, "custom_findings", <<>>)),
                Tail(reports))

\* vuln_type.lower() of the check names of the model
vuln_type_lower(vuln_type) ==
    CASE vuln_type = "reentrancy" -> "reentrancy"
      [] vuln_type = "reentrancy-eth" -> "reentrancy-eth"
      [] vuln_type = "TX_Origin_Usage" -> "tx_origin_usage"
      [] vuln_type = "Timestamp_Dependency" -> "timestamp_dependency"
      [] vuln_type = "Integer_Overflow_Underflow_Candidate_Basic" ->
            "integer_overflow_underflow_candidate_basic"
      [] vuln_type = "Low_Level_Call" -> "low_level_call"

get_severity_for_vulnerability(vuln_type) ==
    LET key == vuln_type_lower(vuln_type)
    IN CASE key \in {"reentrancy", "reentrancy-eth", "unchecked-transfer", "unchecked-lowlevel",
                     "tx-origin", "TX_Origin_Usage", "uninitialized-storage", "suicidal",
                     "arbitrary-send"} -> "High"
         [] key \in {"reentrancy-no-eth", "unchecked-send", "timestamp", "Timestamp_Dependency",
                     "Integer_Overflow_Underflow_Candidate_Basic", "uninitialized-local",
                     "unused-return", "incorrect-equality", "shadowing-state", "locked-ether",
                     "Low_Level_Call"} -> "Medium"
         [] OTHER -> "Medium"

\* the reading of the clock stored as creation_date
Now == "2025-06-01 12:00:00"

\* the patterns dict once every report is processed
trained_patterns(st) ==
    [code_patterns |-> st.code_patterns,
     metadata |-> [version |-> "1.0",
                   creation_date |-> Now,
                   total_contracts_analyzed |-> st.contract_count,
                   vulnerable_contracts_analyzed |-> st.vulnerable_contract_count],
     vulnerability_types |->
        [i \in Indices(st.vulnerability_counts) |->
            JItem(st.vulnerability_counts[i].k,
                  [count |-> st.vulnerability_counts[i].v,
                   severity |-> get_severity_for_vulnerability(st.vulnerability_counts[i].k),
                   frequency |-> [num |-> st.vulnerability_counts[i].v,
                                  den |-> st.contract_count]])]]

\* extract_vulnerability_patterns(): the model built from the reports found, in glob order;
\* with no report it returns before it writes anything
extract_vulnerability_patterns(reports) ==
    IF reports = <<>> THEN [patterns |-> EmptyDict, written |-> FALSE]
    ELSE [patterns |-> trained_patterns(
              train_reports([code_patterns |-> <<>>, vulnerability_counts |-> <<>>,
                             contract_count |-> 0, vulnerable_contract_count |-> 0],
                            reports)),
          written |-> TRUE]

\* the model file json.dump writes
ModelFile(patterns) == [kind |-> "json", value |-> [v |-> patterns, t |-> "dict"]]

----------------------------------------------------------------------------
(* detect_external_loopholes: model-based detection *)

\* re.escape(pattern) of the code lines a model can hold
re_escape(pattern) ==
    CASE pattern = "require(tx.origin == owner);" -> "require\\(tx\\.origin\\ ==\\ owner\\);"
      [] pattern = "x.call.value(amount)()" -> "x\\.call\\.value\\(amount\\)\\(\\)"
      [] pattern = "y.call.value(total)()" -> "y\\.call\\.value\\(total\\)\\(\\)"
      [] pattern = "uint256 public totalSupply;" -> "uint256\\ public\\ totalSupply;"
      [] pattern = "if (block.timestamp > deadline) { count += 1; }" ->
            "if\\ \\(block\\.timestamp\\ >\\ deadline\\)\\ \\{\\ count\\ \\+=\\ 1;\\ \\}"
      [] pattern = "TX.ORIGIN" -> "TX\\.ORIGIN"
      [] pattern = "msg.sender.call(data);" -> "msg\\.sender\\.call\\(data\\);"

\* the letter of the first escape in a replacement template that re does not know:
\* in a template only \g<..>, group numbers and the escapes \a \b \f \n \r \t \v \\ are
\* allowed, and \s and \w are not among them
BadEscape(repl) ==
    CASE repl = "\\s+" -> "s"
      [] repl = "\\w+\\s+\\w+" -> "w"

\* re.sub(pattern, repl, string) with the two templates of the script: the template is
\* parsed before any match is looked for, and an unknown escape made of a backslash and
\* an ASCII letter is an error (Python 3.7 and later, which the script's
\* subprocess.run(capture_output=True) needs as well)
re_sub(pattern, repl, string) ==
    Raise("error", Format("bad escape \\{} at position 0", <<BadEscape(repl)>>))

\* lines 303-304: the matcher made from one code line of the model
core_pattern(pattern) ==
    LET spaced == re_sub("\\s+", "\\s+", re_escape(pattern))
    IN IF spaced.raised THEN spaced
       ELSE re_sub("\\\\\\w+\\\\s+\\\\\\w+", "\\w+\\s+\\w+", spaced.value)

\* lines 307-322: the finding made when a matcher matches a line
model_finding(model_patterns, vuln_type, line, line_num) ==
    [description |-> Format("Potential {} vulnerability detected based on trained model patterns",
                            <<vuln_type>>),
     confidence |-> "Medium",
     check |-> Format("Model_{}", <<vuln_type>>),
     impact |-> DictGet(ItemsGet(DictGet(model_patterns, "vulnerability_types", <<>>),
                                 vuln_type, EmptyDict),
                        "severity", "Medium"),
     elements |-> <<line_element(line, line_num, basename(ContractPath))>>]

\* the three loops of lines 299-322; acc holds model_findings and whether an exception
\* has left the try block
RECURSIVE pattern_loop(_, _, _, _, _, _)
pattern_loop(model_patterns, vuln_type, line, line_num, patterns, acc) ==
    IF acc.raised \/ patterns = <<>> THEN acc
    ELSE LET matcher == core_pattern(Head(patterns))
         IN IF matcher.raised THEN [acc EXCEPT !.raised = TRUE]
            ELSE pattern_loop(model_patterns, vuln_type, line, line_num, Tail(patterns),
                    IF re_search(matcher.value, line)
                    THEN [acc EXCEPT !.findings =
                             Append(@, model_finding(model_patterns, vuln_type, line, line_num))]
                    ELSE acc)

RECURSIVE line_loop(_, _, _, _, _, _)
line_loop(model_patterns, vuln_type, lines, line_num, patterns, acc) ==
    IF acc.raised \/ line_num > Len(lines) THEN acc
    ELSE line_loop(model_patterns, vuln_type, lines, line_num + 1, patterns,
            pattern_loop(model_patterns, vuln_type, lines[line_num], line_num, patterns, acc))

RECURSIVE vuln_type_loop(_, _, _, _)
vuln_type_loop(model_patterns, items, lines, acc) ==
    IF acc.raised \/ items = <<>> THEN acc
    ELSE vuln_type_loop(model_patterns, Tail(items), lines,
            line_loop(model_patterns, Head(items).k, lines, 1, Head(items).v, acc))

\* a file that holds no JSON document, and JSON documents that are no trained model
InvalidFile == [kind |-> "invalid"]

ListFile == [kind |-> "json", value |-> [v |-> <<>>, t |-> "list"]]

EmptyObjectFile == [kind |-> "json", value |-> [v |-> EmptyDict, t |-> "dict"]]

\* model_patterns is None
NoModel == [v |-> EmptyDict, t |-> "null"]

\* a loader for which a model file that is missing or cannot be used is an error
load_model_strict(file) ==
    CASE file.kind = "absent" -> Raise("FileNotFoundError", Text("Models/vulnerability_patterns.json"))
      [] file.kind = "invalid" -> Raise("JSONDecodeError", Text("Expecting value"))
      [] file.kind = "json" ->
            IF file.value.t # "dict" THEN NoAttribute(file.value, "get") ELSE Return(file.value)

\* lines 259-271: the model is loaded if its file exists; a file that cannot be loaded,
\* or holds no JSON object, leaves model_patterns = None
load_model(file) ==
    CASE file.kind = "absent" -> Return(NoModel)
      [] file.kind = "invalid" -> Return(NoModel)
      [] file.kind = "json" ->
            IF file.value.t # "dict" THEN Return(NoModel) ELSE Return(file.value)

\* lines 291-324: model-based detection
model_detection(model_patterns, contract) ==
    IF model_patterns.t = "dict" /\ DOMAIN model_patterns.v # {}
    THEN IF contract.kind = "absent" THEN <<>>
         ELSE vuln_type_loop(model_patterns.v,
                             DictGet(model_patterns.v, "code_patterns", <<>>),
                             contract.lines,
                             [raised |-> FALSE, findings |-> <<>>]).findings
    ELSE <<>>

\* lines 279-336 once the model is loaded
\* lines 282-286: the detectors of the Slither output
slither_detectors(slither_raw_output) ==
    IF HasKey(slither_raw_output, "results") /\ HasKey(slither_raw_output.results, "detectors")
    THEN slither_raw_output.results.detectors ELSE <<>>

\* lines 326-336: the findings of the three sources combined
all_findings(slither_raw_output, slither_findings, custom_findings, model_findings) ==
    [slither_findings |-> slither_findings,
     custom_findings |-> custom_findings,
     model_findings |-> model_findings,
     contract_file |-> basename(ContractPath),
     slither_success |-> DictGet(slither_raw_output, "success", FALSE),
     total_slither_issues |-> Len(slither_findings),
     total_custom_issues |-> Len(custom_findings),
     total_model_issues |-> Len(model_findings)]

detect_contract(model_patterns, contract, slither_raw_output) ==
    all_findings(slither_raw_output, slither_detectors(slither_raw_output),
                 apply_custom_rules(contract), model_detection(model_patterns, contract))

\* detect_external_loopholes(contract_path): the content of the detection file it writes
detect_external_loopholes(file, contract, run) ==
    LET loaded == load_model(file)
    IN IF loaded.raised THEN loaded
       ELSE Return(detect_contract(loaded.value, contract, run_slither_analysis(run)))

----------------------------------------------------------------------------
(* The report script, scripts/generate_report.py *)

\* format_finding: the Location line of one element; the elements of the model hold
\* no markdown and no snippet, and the backquotes of the report are written ' here
format_element(elem, finding_type) ==
    LET elem_name == DictGet(elem, "name", "N/A")
        source_map == DictGet(elem, "source_mapping", EmptyDict)
        lines == DictGet(source_map, "lines", <<>>)
        filename == DictGet(source_map, "filename_relative", "N/A")
    IN Format("      - **Location:** {}",
              <<<<Format("Type '{}'", <<DictGet(elem, "type", "N/A")>>)>>
                \o (IF elem_name # "" /\ elem_name # "N/A"
                    THEN IF finding_type = "Custom" /\ CodeLineLen(elem_name) > 100
                         THEN <<Format("Content starts with '{}...'", <<Slice(elem_name, 50)>>)>>
                         ELSE <<Format("Name/Content '{}'", <<elem_name>>)>>
                    ELSE <<>>)
                \o (IF lines # <<>> THEN <<Format("Lines '{}'", <<lines>>)>> ELSE <<>>)
                \o (IF filename # "" /\ filename # "N/A"
                    THEN <<Format("in '{}'", <<filename>>)>> ELSE <<>>)>>)

\* format_finding(finding, finding_type): the lines it joins
format_finding(finding, finding_type) ==
    LET elements == DictGet(finding, "elements", <<>>)
    IN <<Format("  - **{}** (Impact: {}, Confidence: {})",
                <<DictGet(finding, "check", "Unknown Issue"),
                  DictGet(finding, "impact", "Unknown"),
                  DictGet(finding, "confidence", "Unknown")>>),
         Format("    - **Description:** {}",
                <<DictGet(finding, "description", Text("No description provided"))>>)>>
       \o (IF elements # <<>>
           THEN <<Text("    - **Details:**")>>
                \o [i \in Indices(elements) |-> format_element(elements[i], finding_type)]
           ELSE <<>>)

\* one findings section of the report
findings_section(findings, finding_type, title, none_found) ==
    IF findings # <<>>
    THEN <<Format(title, <<Len(findings)>>)>>
         \o Flatten([i \in Indices(findings) |-> format_finding(findings[i], finding_type)])
         \o <<Text("\n")>>
    ELSE <<Text(none_found)>>

\* 'overflow' in check.lower(), for the check names of the model
MentionsOverflow(check) == check = "Integer_Overflow_Underflow_Candidate_Basic"

\* lines 349-362: the recommendations
recommendations(slither_findings, custom_findings) ==
    LET every == slither_findings \o custom_findings
    IN <<Text("## Recommendations\n")>>
       \o (IF Len(every) > 0
           THEN <<Text("Based on the findings, consider the following recommendations:\n")>>
                \o (IF \E i \in Indices(every) : DictGet(every[i], "impact", PyNone) = "High"
                    THEN <<Text("- **Critical:** Address high impact issues before deploying this contract")>>
                    ELSE <<>>)
                \o (IF \E i \in Indices(slither_findings) :
                          DictGet(slither_findings[i], "check", PyNone) = "reentrancy"
                    THEN <<Text("- **Reentrancy:** Implement checks-effects-interactions pattern")>>
                    ELSE <<>>)
                \o (IF \E i \in Indices(every) : MentionsOverflow(DictGet(every[i], "check", ""))
                    THEN <<Text("- **Arithmetic:** Use SafeMath or Solidity 0.8+ for arithmetic operations")>>
                    ELSE <<>>)
                \o <<Text("- **General:** Consider a professional audit before deploying with significant value")>>
           ELSE <<Text("No significant issues were detected, but this does not guarantee the contract is free from vulnerabilities. Consider:\n"),
                  Text("- Conducting thorough unit and integration testing"),
                  Text("- Performing a professional security audit")>>)

\* generate_external_report: report_content for the data of a detection file
report_content(data) ==
    LET slither_findings == DictGet(data, "slither_findings", <<>>)
        custom_findings == DictGet(data, "custom_findings", <<>>)
    IN <<Format("# Security Analysis for Contract: {}\n", <<"Bank">>),
         Text("## Summary\n"),
         Format("- **Contract:** {}", <<"Bank">>),
         Format("- **Total Issues Found:** {}", <<Len(slither_findings) + Len(custom_findings)>>),
         Format("- **Analysis Date:** {}\n", <<DictGet(data, "analysis_date", "Not specified")>>)>>
       \o findings_section(slither_findings, "Slither", "## Slither Findings ({} issues)\n",
                           "## Slither Findings\n\nNo issues detected by Slither.\n")
       \o findings_section(custom_findings, "Custom", "## Custom Rule Findings ({} issues)\n",
                           "## Custom Rule Findings\n\nNo issues detected by custom rules.\n")
       \o recommendations(slither_findings, custom_findings)

\* generate_external_report(contract_path): whether it wrote the report, and the report
generate_external_report(exists, file) ==
    IF ~exists \/ file.kind = "absent" THEN [ret |-> FALSE, lines |-> <<>>]
    ELSE [ret |-> TRUE, lines |-> report_content(file.value)]

----------------------------------------------------------------------------
(* A detection run on one external contract, and its report *)

\* the model files a detection run may find: none, unusable ones, and trained ones
ModelFiles ==
    {Absent, InvalidFile, ListFile, EmptyObjectFile,
     ModelFile(extract_vulnerability_patterns(
         <<DetectionReport(TRUE, <<ReentrancyLineFinding>>, <<"x.call.value(amount)()">>)>>).patterns),
     ModelFile(extract_vulnerability_patterns(
         <<DetectionReport(FALSE, <<TxOriginLineFinding, ShortLineFinding>>,
                           <<"if (block.timestamp > deadline) { count += 1; }">>),
           DetectionReport(FALSE, <<SlitherFinding, ReentrancyLineFinding>>,
                           <<"  TX.ORIGIN  ", "require(tx.origin == owner);">>)>>).patterns)}

InitDetect ==
    /\ NoTasks
    /\ NoScorer
    /\ NoAnalyzers
    /\ model_file \in ModelFiles
    /\ detection_file = Absent
    /\ report_file = Absent
    /\ pipeline_call = NoCall

\* detect_external_loopholes(contract_path) with an empty results directory; Slither
\* gives no report on a contract file that does not exist
DetectExternal ==
    /\ detection_file = Absent
    /\ \E contract \in ContractFiles :
          \E run \in {r \in SlitherRuns : contract.kind = "absent" => r.kind # "json"} :
              \E done \in {detect_external_loopholes(model_file, contract, run)} :
                 /\ detection_file' = IF done.raised THEN detection_file
                                      ELSE [kind |-> "json", value |-> done.value]
                 /\ pipeline_call' = [op |-> "detect_external_loopholes", raised |-> done.raised,
                                      contract |-> contract, run |-> run]
                 /\ UNCHANGED <<scorer_vars, task_vars, tool_vars, model_file, report_file>>

\* generate_external_report(contract_path)
GenerateExternalReport ==
    \E exists \in BOOLEAN :
        \E done \in {generate_external_report(exists, detection_file)} :
           /\ report_file' = IF done.ret THEN [kind |-> "text", lines |-> done.lines]
                             ELSE report_file
           /\ pipeline_call' = [op |-> "generate_external_report", exists |-> exists,
                                ret |-> done.ret]
           /\ UNCHANGED <<scorer_vars, task_vars, tool_vars, model_file, detection_file>>

\* the results directory is emptied before the next run
CleanResults ==
    /\ detection_file # Absent
    /\ detection_file' = Absent
    /\ report_file' = Absent
    /\ pipeline_call' = NoCall
    /\ UNCHANGED <<scorer_vars, task_vars, tool_vars, model_file>>

NextDetect == DetectExternal \/ GenerateExternalReport \/ CleanResults

SpecDetect == InitDetect /\ [][NextDetect]_vars

----------------------------------------------------------------------------
(* Training passes *)

InitTrain ==
    /\ NoTasks
    /\ NoScorer
    /\ NoAnalyzers
    /\ NoPipeline

\* extract_vulnerability_patterns() on the detection reports present
Train ==
    \E reports \in SeqsUpTo(TrainingReports, MaxReports) :
        \E done \in {extract_vulnerability_patterns(reports)} :
           /\ model_file' = IF done.written THEN ModelFile(done.patterns) ELSE model_file
           /\ pipeline_call' = [op |-> "extract_vulnerability_patterns", reports |-> reports,
                                written |-> done.written]
           /\ UNCHANGED <<scorer_vars, task_vars, tool_vars, detection_file, report_file>>

NextTrain == Train

SpecTrain == InitTrain /\ [][NextTrain]_vars

----------------------------------------------------------------------------
(* Properties of the detection run and of its report *)

\* the last step was a detection run that wrote its detection file
Detected ==
    /\ pipeline_call.op = "detect_external_loopholes"
    /\ ~pipeline_call.raised
    /\ detection_file.kind = "json"

\* the findings of a list that point at line line_num
FindingsAbout(findings, line_num) ==
    {i \in Indices(findings) : findings[i].elements[1].source_mapping.lines = <<line_num>>}

\* Slither failed on the contract of the detection file and left no finding
SlitherFailedWithoutFindings ==
    /\ detection_file.kind = "json"
    /\ detection_file.value.slither_success = FALSE
    /\ detection_file.value.slither_findings = <<>>

\* the sentences with which the report scripts say that Slither did not run to its end
FailureMarkers ==
    {Text("- **Slither Execution Issue**"),
     Text("Slither analysis failed or did not complete successfully.")}

NoSlitherIssues == Text("## Slither Findings\n\nNo issues detected by Slither.\n")

\* C11 as stated: a tool run that failed and contributed no finding is never presented as
\* clean: the detection result says that the tool failed, and the report generated from
\* it carries a failure marker for the tool and never the statement that the tool
\* detected no issues.
C11_FailedRunIsNotPresentedAsClean ==
    (SlitherFailedWithoutFindings /\ report_file.kind = "text")
        => /\ ~InList(NoSlitherIssues, report_file.lines)
           /\ \E i \in Indices(report_file.lines) : report_file.lines[i] \in FailureMarkers

\* What the report says instead: whenever the detection file holds no Slither finding,
\* whether Slither succeeded or not, the report states that Slither detected no issues,
\* and it holds no failure marker.
EmptySlitherListIsReportedAsNoIssues ==
    (detection_file.kind = "json" /\ report_file.kind = "text"
        /\ detection_file.value.slither_findings = <<>>)
        => /\ InList(NoSlitherIssues, report_file.lines)
           /\ \A i \in Indices(report_file.lines) : report_file.lines[i] \notin FailureMarkers

\* a report was written for a run in which Slither failed
FailedRunReported == SlitherFailedWithoutFindings /\ report_file.kind = "text"

\* the (line, rule) pairs of a contract whose rule matches the line
MatchingPairs(lines) ==
    {pair \in Indices(lines) \X Indices(CUSTOM_RULES) :
        re_search(CUSTOM_RULES[pair[2]].pattern, lines[pair[1]])}

\* the custom findings made for one (line, rule) pair, with snippet as their snippet
FindingsOfPair(findings, pair, snippet) ==
    {i \in FindingsAbout(findings, pair[1]) :
        /\ findings[i].check = CUSTOM_RULES[pair[2]].name
        /\ findings[i].impact = CUSTOM_RULES[pair[2]].severity
        /\ findings[i].elements[1].name = snippet}

\* the line as it stands in the file
whole_line(line) == line

\* one finding per matching (line, rule) pair and none for the others, the snippet of a
\* finding being Snippet(line)
OneFindingPerMatchingPair(Snippet(_)) ==
    (Detected /\ pipeline_call.contract.kind = "text") =>
        LET lines == pipeline_call.contract.lines
            findings == detection_file.value.custom_findings
        IN /\ \A pair \in Indices(lines) \X Indices(CUSTOM_RULES) :
                 Cardinality(FindingsOfPair(findings, pair, Snippet(lines[pair[1]])))
                    = IF pair \in MatchingPairs(lines) THEN 1 ELSE 0
           /\ Len(findings) = Cardinality(MatchingPairs(lines))
           /\ detection_file.value.total_custom_issues = Len(findings)
           /\ lines = <<"require(tx.origin == owner);">>
                 => /\ Len(findings) = 1
                    /\ findings[1].check = "TX_Origin_Usage"
                    /\ findings[1].impact = "High"
                    /\ findings[1].elements[1].source_mapping.lines = <<1>>

\* C16 as stated: the custom rule engine returns exactly one finding per (line, rule) pair
\* whose pattern matches the line case-insensitively, with the rule's name as check, the
\* rule's severity, the 1-based line number and the line as snippet; rules matching the
\* same line each give their own finding, pairs that do not match give none;
\* TX_Origin_Usage on the single line require(tx.origin == owner); gives exactly one
\* finding, High, line 1.
C16_SnippetIsTheLine == OneFindingPerMatchingPair(whole_line)

\* C16, amended: the same, the snippet being the line without the white space at its ends
\* (line.strip()).
C16_OneFindingPerMatchingPair == OneFindingPerMatchingPair(line_strip)

\* two rules matched the second line of a contract and each gave a finding for it
C16_Witness ==
    /\ Detected
    /\ pipeline_call.contract.kind = "text"
    /\ pipeline_call.contract.lines
          = <<"  TX.ORIGIN  ", "if (block.timestamp > deadline) { count += 1; }">>
    /\ Len(detection_file.value.custom_findings) = 3
    /\ detection_file.value.custom_findings[1].elements[1].name = "TX.ORIGIN"
    /\ detection_file.value.custom_findings[2].check = "Timestamp_Dependency"
    /\ detection_file.value.custom_findings[3].check = "Integer_Overflow_Underflow_Candidate_Basic"
    /\ Cardinality(FindingsAbout(detection_file.value.custom_findings, 2)) = 2

\* the code lines the model file holds under a check type
Exemplars(file, vuln_type) ==
    IF file.kind = "json" /\ file.value.t = "dict" /\ HasKey(file.value.v, "code_patterns")
    THEN ItemsGet(file.value.v.code_patterns, vuln_type, <<>>)
    ELSE <<>>

\* the check types of the model file
CheckTypes(file) ==
    IF file.kind = "json" /\ file.value.t = "dict" /\ HasKey(file.value.v, "code_patterns")
    THEN {file.value.v.code_patterns[i].k : i \in Indices(file.value.v.code_patterns)}
    ELSE {}

\* C17 as stated: the matcher generated from the code line x.call.value(amount)() learned
\* under reentrancy matches the line y.call.value(total)() and does not match the line
\* uint256 public totalSupply; -- a detection run with that model reports the first line
\* and not the second.
C17_GeneralizationRoundTrip ==
    (Detected /\ pipeline_call.contract.kind = "text"
        /\ Exemplars(model_file, "reentrancy") = <<"x.call.value(amount)()">>
        /\ CheckTypes(model_file) = {"reentrancy"})
        => \A n \in Indices(pipeline_call.contract.lines) :
              /\ pipeline_call.contract.lines[n] = "y.call.value(total)()"
                    => FindingsAbout(detection_file.value.model_findings, n) # {}
              /\ pipeline_call.contract.lines[n] = "uint256 public totalSupply;"
                    => FindingsAbout(detection_file.value.model_findings, n) = {}

\* What a detection run does instead: building a matcher raises, the exception is caught
\* around the whole of the model-based detection, and no model finding is ever written.
NoModelFindingIsEverMade ==
    detection_file.kind = "json"
        => /\ detection_file.value.model_findings = <<>>
           /\ detection_file.value.total_model_issues = 0

\* a run with the reentrancy model on a contract that holds the line of the same shape
GeneralizationTried ==
    /\ Detected
    /\ Exemplars(model_file, "reentrancy") = <<"x.call.value(amount)()">>
    /\ pipeline_call.contract.kind = "text"
    /\ InList("y.call.value(total)()", pipeline_call.contract.lines)

\* the severity the model file holds for a check type
ModelSeverity(file, vuln_type) ==
    DictGet(ItemsGet(file.value.v.vulnerability_types, vuln_type, EmptyDict), "severity", "Medium")

\* C18 as stated: one finding is emitted per (check type, code line of the model, line)
\* match, and it carries the check type in its check id, the model's severity for the
\* check type, confidence Medium and the matched line with its number. A code line of the
\* model matches at least the lines equal to it.
C18_OneModelFindingPerMatch ==
    (Detected /\ pipeline_call.contract.kind = "text") =>
        \A vuln_type \in CheckTypes(model_file) :
            \A n \in Indices(pipeline_call.contract.lines) :
                InList(line_strip(pipeline_call.contract.lines[n]), Exemplars(model_file, vuln_type))
                    => \E i \in FindingsAbout(detection_file.value.model_findings, n) :
                          LET finding == detection_file.value.model_findings[i]
                          IN /\ finding.check \in {Format("model-{}", <<vuln_type>>),
                                                   Format("Model_{}", <<vuln_type>>)}
                             /\ finding.impact = ModelSeverity(model_file, vuln_type)
                             /\ finding.confidence = "Medium"
                             /\ finding.elements[1].name = line_strip(pipeline_call.contract.lines[n])

\* a run on a contract that holds a code line of the model itself
ExemplarLineAnalysed ==
    /\ Detected
    /\ pipeline_call.contract.kind = "text"
    /\ \E vuln_type \in CheckTypes(model_file) :
          \E n \in Indices(pipeline_call.contract.lines) :
              InList(line_strip(pipeline_call.contract.lines[n]), Exemplars(model_file, vuln_type))

\* model files that are missing, hold no JSON, or hold JSON that is no model
UnusableModelFiles == {Absent, InvalidFile, ListFile}

\* C19: a missing (or unreadable or invalid) model file is not an error: the detection run
\* completes, makes no model finding, and still writes the findings of Slither and of the
\* custom rules to the detection file.
C19_MissingModelIsNotAnError ==
    (pipeline_call.op = "detect_external_loopholes" /\ model_file \in UnusableModelFiles)
        => /\ ~pipeline_call.raised
           /\ detection_file.kind = "json"
           /\ detection_file.value.model_findings = <<>>
           /\ detection_file.value.total_model_issues = 0
           /\ detection_file.value.slither_findings
                 = IF pipeline_call.run.kind = "json"
                      /\ HasKey(pipeline_call.run.data.results, "detectors")
                   THEN pipeline_call.run.data.results.detectors ELSE <<>>
           /\ detection_file.value.slither_success
                 = (pipeline_call.run.kind = "json" /\ pipeline_call.run.data.success)
           /\ Len(detection_file.value.custom_findings)
                 = IF pipeline_call.contract.kind = "text"
                   THEN Cardinality(MatchingPairs(pipeline_call.contract.lines)) ELSE 0

\* without a model file, a run wrote a Slither finding and a custom finding
C19_Witness ==
    /\ Detected
    /\ model_file = Absent
    /\ detection_file.value.slither_findings = <<SlitherFinding>>
    /\ pipeline_call.contract.kind = "text"
    /\ pipeline_call.contract.lines = <<"require(tx.origin == owner);">>
    /\ Len(detection_file.value.custom_findings) = 1
    /\ detection_file.value.model_findings = <<>>

----------------------------------------------------------------------------
(* Properties of a training pass *)

\* the last step was a training pass that wrote the model file
Trained ==
    /\ pipeline_call.op = "extract_vulnerability_patterns"
    /\ pipeline_call.written
    /\ model_file.kind = "json"

\* the findings train_model reads from a report
ReportFindings(report) ==
    IF report.kind = "json"
    THEN report.value.slither_findings \o report.value.custom_findings
    ELSE <<>>

\* the code lines of usable length that the line elements of a finding hold
FindingLines(finding) ==
    {line_strip(finding.elements[e].name) :
        e \in {x \in Indices(finding.elements) :
                  /\ finding.elements[x].type = "line"
                  /\ CodeLineLen(line_strip(finding.elements[x].name)) > 5}}

\* the code lines the reports hold under a check type
LearnableLines(reports, vuln_type) ==
    UNION {UNION {FindingLines(ReportFindings(reports[j])[i]) :
                    i \in {x \in Indices(ReportFindings(reports[j])) :
                              ReportFindings(reports[j])[x].check = vuln_type}} :
           j \in Indices(reports)}

\* C20: after any training pass the list of code lines of every check type holds no two
\* equal strings, whatever the order of the detection reports and however often a code
\* line occurs in Slither and custom findings; and it holds every code line of usable
\* length the reports hold under that check type.
C20_ExemplarsAreDistinct ==
    model_file.kind = "json" =>
        /\ \A vuln_type \in CheckTypes(model_file) :
              \A a, b \in Indices(Exemplars(model_file, vuln_type)) :
                  a # b => Exemplars(model_file, vuln_type)[a] # Exemplars(model_file, vuln_type)[b]
        /\ Trained =>
              \A vuln_type \in {"reentrancy", "reentrancy-eth", "TX_Origin_Usage",
                                "Timestamp_Dependency", "Low_Level_Call",
                                "Integer_Overflow_Underflow_Candidate_Basic"} :
                  {Exemplars(model_file, vuln_type)[a] :
                        a \in Indices(Exemplars(model_file, vuln_type))}
                     = LearnableLines(pipeline_call.reports, vuln_type)

\* two reports held the same tx.origin line six times under one check type, in Slither
\* and in custom findings, and the model holds it once
C20_Witness ==
    /\ Trained
    /\ Len(pipeline_call.reports) = 2
    /\ pipeline_call.reports[1] = pipeline_call.reports[2]
    /\ pipeline_call.reports[1] =
          DetectionReport(FALSE, <<TxOriginLineFinding, ShortLineFinding>>,
                          <<"require(tx.origin == owner);", "require(tx.origin == owner);">>)
    /\ Exemplars(model_file, "TX_Origin_Usage") = <<"require(tx.origin == owner);">>
    /\ ItemsGet(model_file.value.v.vulnerability_types, "TX_Origin_Usage", EmptyDict).count = 6
    /\ Exemplars(model_file, "reentrancy") = <<>>

\* the elements of a list
SetOf(list) == {list[i] : i \in Indices(list)}

\* C21 as stated: the model is append-only across training passes: every check type and
\* every code line the model file holds before a training pass is still in the model file
\* after that pass.
C21_ModelIsAppendOnly ==
    [][\A vuln_type \in CheckTypes(model_file) :
          /\ vuln_type \in CheckTypes(model_file')
          /\ SetOf(Exemplars(model_file, vuln_type))
                \subseteq SetOf(Exemplars(model_file', vuln_type))]_vars

----------------------------------------------------------------------------
(* A training pass and a detection pass that run at the same time.  The    *)
(* training script writes Models/vulnerability_patterns.json in place:     *)
(* open(model_path, 'w') empties the file, json.dump fills the buffer of   *)
(* the file object, which is written out when it is full and when the file *)
(* is closed.  The detection script tests that the file exists and then    *)
(* reads it.                                                               *)

\* the largest number of training passes of one run of the model
MaxPasses == 2

\* the largest number of times the buffer is written out before the file is closed
MaxFlushes == 1

\* the detection reports a training pass of this part finds
SnapshotReports ==
    {<<>>,
     <<DetectionReport(TRUE, <<ReentrancyLineFinding>>, <<"x.call.value(amount)()">>)>>,
     <<DetectionReport(FALSE, <<>>, <<"if (block.timestamp > deadline) { count += 1; }">>)>>,
     <<DetectionReport(FALSE, <<TxOriginLineFinding, ShortLineFinding>>,
                       <<"  TX.ORIGIN  ", "require(tx.origin == owner);">>)>>}

\* the contracts a detection pass of this part analyses
SnapshotContracts ==
    {[kind |-> "text", lines |-> <<"x.call.value(amount)()">>],
     [kind |-> "text", lines |-> <<"require(tx.origin == owner);", "uint256 public totalSupply;">>]}

\* the model file while json.dump is writing patterns to it: it holds the first
\* flushed buffers of the text, which is no JSON document
PartialFile(patterns, flushed) == [kind |-> "invalid", of |-> patterns, flushed |-> flushed]

\* the model files that were written to their end when the run begins
InitSnapshot ==
    /\ NoScorer
    /\ NoAnalyzers
    /\ OnlyModelTasks
    /\ model_file \in {Absent, ModelFile(extract_vulnerability_patterns(
                           <<DetectionReport(FALSE, <<SlitherFinding, ReentrancyLineFinding>>,
                                             <<"msg.sender.call(data);">>)>>).patterns)}
    /\ published = IF model_file = Absent THEN <<>> ELSE <<model_file>>
    /\ detection_file = Absent
    /\ report_file = Absent
    /\ pipeline_call = NoCall
    /\ trainer = Idle
    /\ detector = Idle

\* extract_vulnerability_patterns() up to the statistics: with no report it returns
TrainerBegin ==
    /\ trainer = Idle
    /\ Len(published) < MaxPasses
    /\ \E reports \in SnapshotReports :
          \E done \in {extract_vulnerability_patterns(reports)} :
             trainer' = IF done.written THEN [pc |-> "open", patterns |-> done.patterns]
                        ELSE Idle
    /\ UNCHANGED <<snapshot_rest, pipeline_vars, detector, published>>

\* open(model_path, 'w'): the file exists and is empty
TrainerOpen ==
    /\ trainer.pc = "open"
    /\ trainer' = [trainer EXCEPT !.pc = "dump"]
    /\ model_file' = PartialFile(trainer.patterns, 0)
    /\ UNCHANGED <<snapshot_rest, detection_file, report_file, pipeline_call,
                   detector, published>>

\* json.dump(patterns, f, indent=2): the buffer is full and is written out
TrainerFlush ==
    /\ trainer.pc = "dump"
    /\ model_file.flushed < MaxFlushes
    /\ model_file' = PartialFile(trainer.patterns, model_file.flushed + 1)
    /\ UNCHANGED <<snapshot_rest, detection_file, report_file, pipeline_call,
                   trainer, detector, published>>

\* the end of the with block: the rest of the text is written and the file is closed
TrainerClose ==
    /\ trainer.pc = "dump"
    /\ model_file' = ModelFile(trainer.patterns)
    /\ published' = Append(published, ModelFile(trainer.patterns))
    /\ trainer' = Idle
    /\ UNCHANGED <<snapshot_rest, detection_file, report_file, pipeline_call, detector>>

\* detect_external_loopholes: os.path.exists(model_path)
DetectorBegin ==
    /\ detector = Idle
    /\ detector' = [pc |-> "exists", exists |-> model_file.kind # "absent",
                    before |-> Len(published)]
    /\ UNCHANGED <<snapshot_rest, pipeline_vars, trainer, published>>

\* detect_external_loopholes: the model is loaded from the file as it is now
DetectorLoad ==
    /\ detector.pc = "exists"
    /\ detector' = [pc |-> "loaded", model_patterns |-> IF detector.exists THEN load_model(model_file).value
                                       ELSE NoModel,
                    before |-> detector.before]
    /\ UNCHANGED <<snapshot_rest, pipeline_vars, trainer, published>>

\* detect_external_loopholes: the contract is analysed and the detection file is written
DetectorFinish ==
    /\ detector.pc = "loaded"
    /\ \E contract \in SnapshotContracts :
          \E run \in {r \in SlitherRuns : r.kind = "not_found"} :
             /\ detection_file' =
                    [kind |-> "json",
                     value |-> detect_contract(detector.model_patterns, contract,
                                               run_slither_analysis(run))]
             /\ pipeline_call' = [op |-> "detect_external_loopholes", raised |-> FALSE,
                                  contract |-> contract, run |-> run]
    /\ detector' = Idle
    /\ UNCHANGED <<snapshot_rest, model_file, report_file, trainer, published>>

NextSnapshot ==
    \/ TrainerBegin
    \/ TrainerOpen
    \/ TrainerFlush
    \/ TrainerClose
    \/ DetectorBegin
    \/ DetectorLoad
    \/ DetectorFinish

SpecSnapshot == InitSnapshot /\ [][NextSnapshot]_vars

\* the models a detection pass may load: the one written to its end last before the pass
\* began and those written to their end since; none only if none was written before
PublishedSnapshots ==
    {published[i].value : i \in {j \in Indices(published) : j >= detector.before}}
        \cup (IF detector.before = 0 THEN {NoModel} ELSE {})

\* C22 as stated: a detection pass that runs while a training pass writes the model file
\* loads a model that was written to its end: the whole old model or the whole new one,
\* never an empty or half-written file and never no model where one was there before.
C22_DetectorReadsPublishedSnapshot ==
    detector.pc = "loaded" => detector.model_patterns \in PublishedSnapshots

----------------------------------------------------------------------------
(* One MythrilAnalyzer used by several callers at the same time.  analyze  *)
(* keeps its result in self.results: it assigns the parsed dictionary to   *)
(* the attribute, reads the attribute again to set 'success', and reads it *)
(* a third time to return it.                                              *)

\* the number of callers of the analyzer
NumCallers == 2

Callers == 1..NumCallers

\* what Mythril does on the contract of a caller; every contract file exists
SharedRuns == MultiRuns("mythril") \ {FileMissing}

\* MythrilAnalyzer.analyze: the dictionary the call assigns to self.results, and whether
\* the assignment is the one followed by self.results['success'] = True
assigned_results(run) ==
    LET process == subprocess_run("mythril", run)
        parsed == parse_results("mythril", process.value.stdout)
    IN IF /\ ~process.raised
          /\ ~(process.value.returncode # 0 /\ NoStdout("mythril", process.value.stdout))
          /\ ~parsed.raised
       THEN [dict |-> parsed.value, mark |-> TRUE]
       ELSE [dict |-> analyze("mythril", run).value, mark |-> FALSE]

\* SecurityAnalysisTool.__init__: self.results = {}, and no call has begun
InitShared ==
    /\ NoScorer
    /\ NoAnalyzers
    /\ NoPipeline
    /\ OnlyAdapterTasks
    /\ mythril = 0
    /\ dicts = [d \in {0} \cup Callers |-> EmptyDict]
    /\ analyses = [c \in Callers |-> Idle]

\* a caller calls analyze(contract_path) with the path of its contract
CallAnalyze(c) ==
    /\ analyses[c] = Idle
    /\ \E run \in SharedRuns : analyses' = [analyses EXCEPT ![c] = [pc |-> "run", run |-> run]]
    /\ UNCHANGED <<shared_rest, mythril, dicts>>

\* the tool runs, and self.results = ... is executed with a new dictionary
AssignResults(c) ==
    /\ analyses[c].pc = "run"
    /\ \E made \in {assigned_results(analyses[c].run)} :
          /\ dicts' = [dicts EXCEPT ![c] = made.dict]
          /\ analyses' = [analyses EXCEPT ![c].pc = IF made.mark THEN "mark" ELSE "return"]
    /\ mythril' = c
    /\ UNCHANGED shared_rest

\* self.results['success'] = True, on the dictionary self.results names now
MarkSuccess(c) ==
    /\ analyses[c].pc = "mark"
    /\ dicts' = [dicts EXCEPT ![mythril] = DictSet(@, "success", TRUE)]
    /\ analyses' = [analyses EXCEPT ![c].pc = "return"]
    /\ UNCHANGED <<shared_rest, mythril>>

\* return self.results: the dictionary self.results names now
ReturnResults(c) ==
    /\ analyses[c].pc = "return"
    /\ analyses' = [analyses EXCEPT ![c] = [pc |-> "returned", run |-> analyses[c].run,
                                             ret |-> mythril]]
    /\ UNCHANGED <<shared_rest, mythril, dicts>>

NextShared ==
    \E c \in Callers :
       \/ CallAnalyze(c)
       \/ AssignResults(c)
       \/ MarkSuccess(c)
       \/ ReturnResults(c)

SpecShared == InitShared /\ [][NextShared]_vars

\* C23 as stated: when two callers run analyze on the same analyzer at the same time,
\* the dictionary each call returned is the result of the tool on its own contract, with
\* its own success flag and issues, as a call that runs alone returns it.
C23_ReturnedResultIsOwn ==
    \A c \in Callers :
       analyses[c].pc = "returned" =>
          dicts[analyses[c].ret] = analyze("mythril", analyses[c].run).value

----------------------------------------------------------------------------
(* An analysis run followed producer by producer: analyze_contract of a    *)
(* MultiToolAnalyzer runs its tools one after the other and returns the    *)
(* combined results; detect_external_loopholes runs Slither, the custom    *)
(* rules and the model-based detection and writes the detection file.      *)

\* the producers of a detection run
DetectionProducers == {"slither", "custom_rules", "model"}

\* the contracts and the Slither runs of the detection runs followed step by step
BarrierContracts ==
    {[kind |-> "text", lines |-> <<"x.call.value(amount)()">>],
     [kind |-> "text", lines |-> <<"require(tx.origin == owner);", "uint256 public totalSupply;">>]}

BarrierSlitherRuns == {r \in SlitherRuns : r.kind \in {"not_found", "json"}}

\* the tools arguments of the runs followed step by step
BarrierTools ==
    {[given |-> FALSE, list |-> <<>>],
     [given |-> TRUE, list |-> <<"mythril">>],
     [given |-> TRUE, list |-> <<"oyente", "mythril">>],
     [given |-> TRUE, list |-> <<"slither", "smartcheck">>]}

\* what the tools do in these runs: one run for each requested tool
RECURSIVE BarrierRuns(_)
BarrierRuns(tools) ==
    IF tools = <<>> THEN {<<>>}
    ELSE {<<r>> \o q : r \in MultiRuns(Head(tools)) \ {FileMissing, BinaryMissing, Completed(0, "[]", "")},
                       q \in BarrierRuns(Tail(tools))}

InitBarrier ==
    /\ NoScorer
    /\ OnlyBarrierTasks
    /\ analyzer = PyNone
    /\ last_call = NoCall
    /\ analyzers = MultiToolAnalyzer_init
    /\ combined_results = EmptyDict
    /\ multi_call = NoCall
    /\ model_file \in {Absent, ModelFile(extract_vulnerability_patterns(
                           <<DetectionReport(FALSE, <<SlitherFinding, ReentrancyLineFinding>>,
                                             <<"msg.sender.call(data);">>)>>).patterns)}
    /\ detection_file = Absent
    /\ report_file = Absent
    /\ pipeline_call = NoCall
    /\ tool_run = Idle
    /\ detect_run = Idle

\* 'for tool_name in tools' has no tool left
tools_exhausted_early(run) == run.next > 1
tools_exhausted(run) == run.next > Len(run.requested)

\* the tools of a run that have not returned
pending_tools(run) == {i \in Indices(run.requested) : i >= run.next}

\* analyze_contract(contract_path, tools) on an existing file, up to the loop
BeginAnalyzeContract ==
    /\ tool_run = Idle
    /\ multi_call = NoCall
    /\ \E tools \in BarrierTools :
          \E runs \in BarrierRuns(RequestedTools(tools)) :
             \E st \in {before_rounds(analyzers)} :
                /\ tool_run' = [pc |-> "loop", st |-> st,
                                runs |-> runs, requested |-> RequestedTools(tools), next |-> 1]
                /\ combined_results' = st.combined_results
    /\ UNCHANGED <<barrier_rest, pipeline_vars, detect_run, analyzer, last_call, analyzers,
                   multi_call>>

\* one round of the loop: the next tool runs to its end, with success, failure or timeout
RunNextTool ==
    /\ tool_run.pc = "loop"
    /\ ~tools_exhausted(tool_run)
    /\ ~tool_run.st.raised
    /\ \E st \in {tool_round(tool_run.st, tool_run.requested[tool_run.next],
                              tool_run.runs[tool_run.next])} :
          /\ tool_run' = [tool_run EXCEPT !.next = @ + 1, !.st = st]
          /\ analyzers' = st.analyzers
          /\ combined_results' = st.combined_results
    /\ UNCHANGED <<barrier_rest, pipeline_vars, detect_run, analyzer, last_call, multi_call>>

\* the lines after the loop: the totals are written and the combined results returned
ReturnCombined ==
    /\ tool_run.pc = "loop"
    /\ tools_exhausted(tool_run) \/ tool_run.st.raised
    /\ \E done \in {update_summary(tool_run.st, Len(tool_run.requested))} :
          /\ combined_results' = done.combined_results
          /\ multi_call' = [op |-> "analyze_contract", raised |-> done.raised,
                            exists |-> TRUE, runs |-> tool_run.runs,
                            ret |-> IF done.raised THEN done.exc ELSE done.combined_results,
                            requested |-> tool_run.requested,
                            pending |-> pending_tools(tool_run)]
    /\ tool_run' = Idle
    /\ UNCHANGED <<barrier_rest, pipeline_vars, detect_run, analyzer, last_call, analyzers>>

\* detect_external_loopholes(contract_path) up to the loop: the model is loaded
BeginDetect ==
    /\ detect_run = Idle
    /\ detection_file = Absent
    /\ \E contract \in BarrierContracts :
          \E run \in BarrierSlitherRuns :
             detect_run' = [pc |-> "slither", contract |-> contract, run |-> run,
                            done |-> {},
                            model_patterns |-> load_model(model_file).value]
    /\ UNCHANGED <<barrier_rest, pipeline_vars, tool_vars, tool_run>>

\* lines 279-286: Slither runs to its end, with a report or with a failure
RunSlither ==
    /\ detect_run.pc = "slither"
    /\ \E slither_raw_output \in {run_slither_analysis(detect_run.run)} :
          detect_run' = [pc |-> "custom_rules", contract |-> detect_run.contract,
                         run |-> detect_run.run, done |-> detect_run.done \cup {"slither"},
                         slither_findings |-> slither_detectors(slither_raw_output),
                         model_patterns |-> detect_run.model_patterns,
                         slither_raw_output |-> slither_raw_output]
    /\ UNCHANGED <<barrier_rest, pipeline_vars, tool_vars, tool_run>>

\* lines 288-289: the custom rules
ApplyCustomRules ==
    /\ detect_run.pc = "custom_rules"
    /\ detect_run' = [pc |-> "model", contract |-> detect_run.contract,
                      run |-> detect_run.run, done |-> detect_run.done \cup {"custom_rules"},
                      slither_findings |-> detect_run.slither_findings,
                      custom_findings |-> apply_custom_rules(detect_run.contract),
                      model_patterns |-> detect_run.model_patterns,
                      slither_raw_output |-> detect_run.slither_raw_output]
    /\ UNCHANGED <<barrier_rest, pipeline_vars, tool_vars, tool_run>>

\* lines 291-324: the model-based detection, to its end or to the exception it catches
ModelDetection ==
    /\ detect_run.pc = "model"
    /\ detect_run' = [pc |-> "save", contract |-> detect_run.contract,
                      run |-> detect_run.run, done |-> detect_run.done \cup {"model"},
                      slither_findings |-> detect_run.slither_findings,
                      custom_findings |-> detect_run.custom_findings,
                      model_patterns |-> detect_run.model_patterns,
                      slither_raw_output |-> detect_run.slither_raw_output,
                      model_findings |-> model_detection(detect_run.model_patterns,
                                                         detect_run.contract)]
    /\ UNCHANGED <<barrier_rest, pipeline_vars, tool_vars, tool_run>>

\* lines 326-343: the findings are combined and the detection file is written
SaveFindings ==
    /\ detect_run.pc = "save"
    /\ detection_file' =
           [kind |-> "json",
            value |-> all_findings(detect_run.slither_raw_output, detect_run.slither_findings,
                                   detect_run.custom_findings, detect_run.model_findings)]
    /\ pipeline_call' = [op |-> "detect_external_loopholes", raised |-> FALSE,
                         contract |-> detect_run.contract, run |-> detect_run.run,
                         pending |-> DetectionProducers \ detect_run.done]
    /\ detect_run' = Idle
    /\ UNCHANGED <<barrier_rest, tool_vars, tool_run, model_file, report_file>>

NextBarrier ==
    \/ BeginAnalyzeContract
    \/ RunNextTool
    \/ ReturnCombined
    \/ BeginDetect
    \/ RunSlither
    \/ ApplyCustomRules
    \/ ModelDetection
    \/ SaveFindings

SpecBarrier == InitBarrier /\ [][NextBarrier]_vars

\* analyze_contract has returned its combined results
CombinedReturned == multi_call.op = "analyze_contract" /\ ~multi_call.raised

\* C24: the combined results of analyze_contract are returned only when every requested
\* tool has returned with success, failure or timeout: they hold one result for each
\* requested tool and the totals over all of them, and nothing is returned while the loop
\* runs; the detection file is written only when Slither, the custom rules and the
\* model-based detection are done, and holds the findings of all three.
C24_AggregateBehindBarrier ==
    /\ tool_run.pc = "loop" => multi_call = NoCall
    /\ detect_run.pc # "idle" => detection_file = Absent /\ pipeline_call = NoCall
    /\ CombinedReturned =>
          /\ multi_call.pending = {}
          /\ DOMAIN multi_call.ret.tool_results = SetOf(multi_call.requested)
          /\ multi_call.ret =
                analyze_contract_multi(MultiToolAnalyzer_init,
                                       [given |-> TRUE, list |-> multi_call.requested],
                                       multi_call.runs).combined_results
          /\ multi_call.ret.summary.requested_tools = Len(multi_call.requested)
    /\ pipeline_call.op = "detect_external_loopholes" =>
          /\ pipeline_call.pending = {}
          /\ detection_file.value =
                detect_contract(load_model(model_file).value, pipeline_call.contract,
                                run_slither_analysis(pipeline_call.run))

\* two tools were requested, the first timed out and the second reported an issue, and
\* a detection run with a failed Slither has written its file
C24_Witness ==
    /\ CombinedReturned
    /\ multi_call.requested = <<"oyente", "mythril">>
    /\ multi_call.runs = <<TimedOut, Completed(0, MythrilOneIssue, "")>>
    /\ multi_call.ret.tool_results["oyente"].success = FALSE
    /\ multi_call.ret.tool_results["mythril"].success = TRUE
    /\ multi_call.ret.summary.total_issues = 1
    /\ pipeline_call.op = "detect_external_loopholes"
    /\ detection_file.value.slither_success = FALSE
    /\ detection_file.value.total_custom_issues > 0

----------------------------------------------------------------------------
(* A caller that keeps a report while the scorer is used further.          *)
(* get_detailed_report builds a new dictionary whose 'vulnerabilities' is  *)
(* the list object of the RiskScore itself; get_summary builds new         *)
(* dictionaries of numbers, enum members and strings.                      *)

\* the largest number of reset calls of one run of the model
MaxResets == 2

\* the levels of the findings added while a report is held
HeldLevels == {LOW, CRITICAL}

\* RiskScorer.__init__: a new RiskScore with a new, empty list
InitReport ==
    /\ NoAnalyzers
    /\ NoPipeline
    /\ OnlyReportTasks
    /\ scorer_class = "RiskScorer"
    /\ patterns_file = PyNone
    /\ risk_patterns = PyNone
    /\ risk_score = RiskScore_init
    /\ calls = <<>>
    /\ last_run = NoRun
    /\ vulnerabilities_id = 0
    /\ lists = [id \in {0} |-> <<>>]
    /\ held = Idle

\* the list objects a held report names
HeldLists(report) == IF report.pc = "detailed" THEN {report.vulnerabilities} ELSE {}

\* add_vulnerability on the RiskScore of the scorer, as analyze_contract and a direct
\* caller make it: self.vulnerabilities.append(vuln) changes the list object in place
AddToScorer ==
    /\ Len(risk_score.vulnerabilities) < MaxFindings
    /\ \E risk_level \in HeldLevels :
          \E rs \in {add_vulnerability(risk_score, "A", "d", risk_level, "Security",
                                       PyNone, PyNone)} :
             /\ risk_score' = rs
             /\ lists' = [lists EXCEPT ![vulnerabilities_id] = rs.vulnerabilities]
             /\ calls' = Append(calls, Call("A", "d", risk_level, "Security", PyNone, PyNone))
    /\ last_run' = [kind |-> "add"]
    /\ UNCHANGED <<report_rest, scorer_class, patterns_file, risk_patterns,
                   vulnerabilities_id, held>>

\* RiskScorer.reset: self.risk_score = RiskScore(), with a new list object; the old list
\* lives on if a report names it
ResetScorer ==
    /\ vulnerabilities_id < MaxResets
    /\ risk_score' = RiskScore_init
    /\ vulnerabilities_id' = vulnerabilities_id + 1
    /\ lists' = [id \in HeldLists(held) \cup {vulnerabilities_id + 1} |->
                    IF id = vulnerabilities_id + 1 THEN <<>> ELSE lists[id]]
    /\ calls' = <<>>
    /\ last_run' = [kind |-> "reset"]
    /\ UNCHANGED <<report_rest, scorer_class, patterns_file, risk_patterns, held>>

\* report = scorer.get_risk_score().get_detailed_report()
GetDetailedReport ==
    /\ held' = [vulnerabilities |-> vulnerabilities_id, summary |-> get_summary(risk_score),
                pc |-> "detailed",
                returned |-> get_detailed_report(risk_score)]
    /\ lists' = [id \in {vulnerabilities_id} |-> lists[id]]
    /\ UNCHANGED <<report_rest, scorer_vars, vulnerabilities_id>>

\* report = scorer.get_risk_score().get_summary()
GetSummary ==
    /\ held' = [summary |-> get_summary(risk_score), pc |-> "summary",
                returned |-> get_summary(risk_score)]
    /\ lists' = [id \in {vulnerabilities_id} |-> lists[id]]
    /\ UNCHANGED <<report_rest, scorer_vars, vulnerabilities_id>>

NextReport == AddToScorer \/ ResetScorer \/ GetDetailedReport \/ GetSummary

SpecReport == InitReport /\ [][NextReport]_vars

\* the report the caller holds, as it reads now
held_report ==
    IF held.pc = "detailed"
    THEN [vulnerabilities |-> lists[held.vulnerabilities], summary |-> held.summary]
    ELSE held.summary

\* C25 as stated: a report obtained from get_detailed_report or get_summary reads the same
\* after every later add_vulnerability, analysis or reset of the scorer as when it was
\* returned: its finding list, total_score and category scores do not change.
C25_ReportIsImmutable ==
    held # Idle => held_report = held.returned

----------------------------------------------------------------------------
(* main_pipeline.py: the steps of a run, each a script run as a process *)

\* the steps of the default pipeline
default_steps(visualize, use_ml_model) ==
    <<"data_preprocessing.py", "feature_extraction.py", "loophole_detection.py",
      "generate_report.py">>
        \o (IF use_ml_model THEN <<"train_model.py">> ELSE <<>>)
        \o (IF visualize THEN <<"visualization_dashboard.py">> ELSE <<>>)

\* the steps of the evaluation pipeline
evaluation_steps ==
    <<"data_preprocessing.py", "feature_extraction.py", "loophole_detection.py",
      "generate_report.py">>

\* a process that ran to its end, with the files of External_Results it leaves
Exited(returncode, detection, report) ==
    [kind |-> "exited", report |-> report, returncode |-> returncode, detection |-> detection]

\* subprocess.Popen raised: the Python executable is gone, or the process cannot be made
PopenRaised(type) ==
    [kind |-> type, report |-> report_file, returncode |-> 0, detection |-> detection_file]

\* the contract of an evaluation as the steps, which run in PROJECT_ROOT, find it: a
\* relative path that names the file from the directory of the caller names no file there
ContractSeen(run) == IF run.resolves THEN run.contract ELSE Absent

\* python loophole_detection.py --contract path: exit code 1 if the slither command is
\* missing or fails on --version, else detect_external_loopholes(path) and exit code 0
loophole_detection_main(run) ==
    {Exited(1, detection_file, report_file)}
        \cup {Exited(0, [kind |-> "json",
                         value |-> detect_external_loopholes(model_file, ContractSeen(run),
                                                             slither).value],
                      report_file) :
                 slither \in {r \in BarrierSlitherRuns : ~run.resolves => r.kind # "json"}}

\* python generate_report.py --contract path: generate_external_report(path), whose return
\* value is dropped, and exit code 0
generate_report_main(run) ==
    LET done == generate_external_report(run.resolves, detection_file)
    IN {Exited(0, detection_file,
               IF done.ret THEN [kind |-> "text", lines |-> done.lines] ELSE report_file)}

\* what the process of a step does
StepProcesses(run, script) ==
    {PopenRaised("FileNotFoundError"), PopenRaised("PermissionError"),
     Exited(2, detection_file, report_file)}
        \cup (IF run.mode = "evaluate" /\ script = "loophole_detection.py"
              THEN loophole_detection_main(run)
              ELSE IF run.mode = "evaluate" /\ script = "generate_report.py"
              THEN generate_report_main(run)
              ELSE {Exited(0, detection_file, report_file),
                    Exited(1, detection_file, report_file)})

\* run_pipeline_step: True if the process ended with return code 0
run_pipeline_step_unchecked(process) ==
    Return(TRUE)
run_pipeline_step(process) ==
    CASE process.kind = "FileNotFoundError" -> Return(FALSE)
      [] process.kind = "exited" -> Return(process.returncode = 0)
      [] OTHER -> Return(FALSE)

\* the contracts of the evaluations
EvaluatedContracts ==
    {[kind |-> "text", lines |-> <<"x.call.value(amount)()">>],
     [kind |-> "text", lines |-> <<"uint256 public totalSupply;">>]}

InitMain ==
    /\ NoScorer
    /\ NoAnalyzers
    /\ OnlyMainTasks
    /\ model_file \in {Absent, ModelFile(extract_vulnerability_patterns(
                           <<DetectionReport(FALSE, <<SlitherFinding, ReentrancyLineFinding>>,
                                             <<"msg.sender.call(data);">>)>>).patterns)}
    /\ detection_file = Absent
    /\ report_file = Absent
    /\ pipeline_call = NoCall
    /\ pipeline_run = Idle

\* the state of a run that has made no step
Started(mode, steps, can_start, contract, resolves) ==
    [pc |-> IF can_start THEN "steps" ELSE "exited", contract |-> contract, resolves |-> resolves,
     mode |-> mode, steps |-> steps,
     ran |-> <<>>, exit |-> IF can_start THEN -1 ELSE 1]

\* run_default_pipeline up to the loop: exit code 1 if SmartContracts is empty or missing
StartDefaultPipeline ==
    /\ pipeline_run = Idle
    /\ \E visualize \in BOOLEAN, use_ml_model \in BOOLEAN, has_contracts \in BOOLEAN :
          pipeline_run' = Started("default", default_steps(visualize, use_ml_model),
                                  has_contracts, Absent, FALSE)
    /\ UNCHANGED <<main_rest, pipeline_vars>>

\* run_evaluation_pipeline up to the loop: exit code 1 if the path names no file
StartEvaluationPipeline ==
    /\ pipeline_run = Idle
    /\ \E contract \in EvaluatedContracts \cup {Absent}, resolves \in BOOLEAN :
          /\ contract = Absent => ~resolves
          /\ pipeline_run' = Started("evaluate", evaluation_steps, contract # Absent,
                                     contract, resolves)
    /\ UNCHANGED <<main_rest, pipeline_vars>>

\* one round of the loop over the steps: run_pipeline_step, and sys.exit(1) if it is False
RunStep ==
    /\ pipeline_run.pc = "steps"
    /\ Len(pipeline_run.ran) < Len(pipeline_run.steps)
    /\ \E process \in StepProcesses(pipeline_run, pipeline_run.steps[Len(pipeline_run.ran) + 1]) :
          \E result \in {run_pipeline_step(process)} :
             /\ pipeline_run' =
                    [pipeline_run EXCEPT
                        !.ran = Append(@, [returncode |-> process.returncode,
                                           process |-> process.kind,
                                           result |-> result,
                                           script |-> pipeline_run.steps[Len(pipeline_run.ran) + 1]]),
                        !.pc = IF result.raised \/ ~result.value THEN "exited" ELSE @,
                        !.exit = IF result.raised \/ ~result.value THEN 1 ELSE @]
             /\ detection_file' = process.detection
             /\ report_file' = process.report
    /\ UNCHANGED <<main_rest, model_file, pipeline_call>>

\* the lines after the loop: the pipeline completed, and main returns
CompletePipeline ==
    /\ pipeline_run.pc = "steps"
    /\ Len(pipeline_run.ran) = Len(pipeline_run.steps)
    /\ pipeline_run' = [pipeline_run EXCEPT !.pc = "exited", !.exit = 0]
    /\ UNCHANGED <<main_rest, pipeline_vars>>

NextMain == StartDefaultPipeline \/ StartEvaluationPipeline \/ RunStep \/ CompletePipeline

SpecMain == InitMain /\ [][NextMain]_vars

\* C26 as stated: when main_pipeline --evaluate has ended with exit code 0, the report
\* External_Results/reports/<contract name>_report.md exists.
C26_SuccessMeansReport ==
    (pipeline_run.pc = "exited" /\ pipeline_run.mode = "evaluate" /\ pipeline_run.exit = 0)
        => report_file # Absent

\* the step a run began with the given number succeeded
StepSucceeded(i) ==
    /\ pipeline_run.ran[i].process = "exited"
    /\ pipeline_run.ran[i].returncode = 0

\* the order of the four steps both pipelines begin with
FixedOrder ==
    <<"data_preprocessing.py", "feature_extraction.py", "loophole_detection.py",
      "generate_report.py">>

\* C27: the steps run are the first steps of the fixed list of the mode, in its order;
\* every step before the last one run ended with return code 0; a run whose last step did
\* not has exit code 1 and runs no further step; exit code 0 is given only when every step
\* of the list ended with return code 0; and run_pipeline_step raised in no step.
C27_StepsInOrderUntilFailure ==
    pipeline_run # Idle =>
        /\ SubSeq(pipeline_run.steps, 1, 4) = FixedOrder
        /\ SubSeq(pipeline_run.steps, 5, Len(pipeline_run.steps))
               \in {<<>>, <<"train_model.py">>, <<"visualization_dashboard.py">>,
                    <<"train_model.py", "visualization_dashboard.py">>}
        /\ pipeline_run.mode = "evaluate" => Len(pipeline_run.steps) = 4
        /\ Len(pipeline_run.ran) <= Len(pipeline_run.steps)
        /\ \A i \in Indices(pipeline_run.ran) :
              /\ pipeline_run.ran[i].script = pipeline_run.steps[i]
              /\ ~pipeline_run.ran[i].result.raised
              /\ pipeline_run.ran[i].result.value = StepSucceeded(i)
              /\ i < Len(pipeline_run.ran) => StepSucceeded(i)
        /\ (pipeline_run.ran # <<>> /\ ~StepSucceeded(Len(pipeline_run.ran)))
              => pipeline_run.pc = "exited" /\ pipeline_run.exit = 1
        /\ pipeline_run.exit = 0
              => /\ Len(pipeline_run.ran) = Len(pipeline_run.steps)
                 /\ \A i \in Indices(pipeline_run.ran) : StepSucceeded(i)
        /\ pipeline_run.pc = "exited" => pipeline_run.exit \in {0, 1}

\* a default run with training ended at its third step, which returned code 1, after two
\* steps that returned 0
C27_Witness ==
    /\ pipeline_run.pc = "exited"
    /\ pipeline_run.mode = "default"
    /\ Len(pipeline_run.steps) = 5
    /\ Len(pipeline_run.ran) = 3
    /\ StepSucceeded(1) /\ StepSucceeded(2)
    /\ pipeline_run.ran[3].script = "loophole_detection.py"
    /\ pipeline_run.ran[3].returncode = 1
    /\ pipeline_run.exit = 1

----------------------------------------------------------------------------
(* The severities of the trained model, checked under SpecTrain *)

\* the rows of severity_map that list High, and those that list Medium
ListedHigh ==
    {"reentrancy", "reentrancy-eth", "unchecked-transfer", "unchecked-lowlevel", "tx-origin",
     "TX_Origin_Usage", "uninitialized-storage", "suicidal", "arbitrary-send"}

ListedMedium ==
    {"reentrancy-no-eth", "unchecked-send", "timestamp", "Timestamp_Dependency",
     "Integer_Overflow_Underflow_Candidate_Basic", "uninitialized-local", "unused-return",
     "incorrect-equality", "shadowing-state", "locked-ether", "Low_Level_Call"}

\* the severity the table lists for a check type, Medium for a check type it does not list
ListedSeverity(vuln_type) == IF vuln_type \in ListedHigh THEN "High" ELSE "Medium"

\* C28 as stated: the severity the trained model holds for a check type is the severity
\* the table of get_severity_for_vulnerability lists for it, the custom-rule names
\* TX_Origin_Usage, Timestamp_Dependency, Integer_Overflow_Underflow_Candidate_Basic and
\* Low_Level_Call included, and Medium for a check type the table does not list.
C28_SeverityIsTheListedOne ==
    Trained =>
       \A i \in Indices(model_file.value.v.vulnerability_types) :
          model_file.value.v.vulnerability_types[i].v.severity
             = ListedSeverity(model_file.value.v.vulnerability_types[i].k)

----------------------------------------------------------------------------
(* The overall level against the highest single level, checked under SpecScore *)

\* C29 as stated: for every non-empty finding set the overall risk level derived from
\* total_score is at least the highest level of a single finding; a set of one Critical
\* finding is rated Critical overall.
C29_OverallAtLeastMax ==
    risk_score.vulnerabilities # <<>>
        => get_overall_risk_level(risk_score) >= risk_score.max_risk_level

\* C29 amended: for every non-empty finding set the overall risk level is at least the
\* highest level of a single finding when that level is Medium or lower, and at most one
\* level below it when it is High or Critical; a set of one Critical finding is rated
\* High overall, and one of a single High finding Medium.
C29_OverallWithinOneOfMax ==
    risk_score.vulnerabilities # <<>>
        => /\ risk_score.max_risk_level <= MEDIUM
                 => get_overall_risk_level(risk_score) >= risk_score.max_risk_level
           /\ risk_score.max_risk_level >= HIGH
                 => get_overall_risk_level(risk_score) >= risk_score.max_risk_level - 1
           /\ (Len(risk_score.vulnerabilities) = 1 /\ risk_score.max_risk_level = CRITICAL)
                 => get_overall_risk_level(risk_score) = HIGH
           /\ (Len(risk_score.vulnerabilities) = 1 /\ risk_score.max_risk_level = HIGH)
                 => get_overall_risk_level(risk_score) = MEDIUM

\* the scorer holds one finding, of level Critical, and its score of 15 is rated High
C29_Witness ==
    /\ Len(risk_score.vulnerabilities) = 1
    /\ risk_score.vulnerabilities[1].risk_level = CRITICAL
    /\ risk_score.max_risk_level = CRITICAL
    /\ risk_score.total_score = 15
    /\ get_overall_risk_level(risk_score) = HIGH

----------------------------------------------------------------------------
(* backend/main.py: one analysis, its background task analyze_contract_sync *)
(* and the requests for its result.  The task is a plain function, run in  *)
(* a worker thread; get_analysis_result runs in the event loop, so its     *)
(* steps and the steps of the task interleave.                             *)

\* AnalysisStatus(id=analysis_id, status=status, progress=progress, ...)
AnalysisStatus(status, progress) == [status |-> status, progress |-> progress]

\* the analyze_contract endpoint has run: the status is queued and the task is scheduled,
\* or the endpoint failed, the status is failed and no task was added
InitBackend ==
    /\ NoScorer
    /\ NoAnalyzers
    /\ NoPipeline
    /\ OnlyBackendTasks
    /\ analysis_status = 1
    /\ \E scheduled \in BOOLEAN :
          /\ status_objects = [o \in {1} |-> IF scheduled THEN AnalysisStatus("queued", 0)
                                              ELSE AnalysisStatus("failed", 0)]
          /\ analysis_task = IF scheduled THEN [pc |-> "scheduled"] ELSE [pc |-> "none"]
    /\ results_folder = [result |-> "absent", temp |-> "absent"]
    /\ result_reader = Idle
    /\ responses = {}

\* the status of the analysis: the fields of the object the dictionary holds
current_status == status_objects[analysis_status]

\* a step of the task that changes no file and no status object
TaskMoves(pc) ==
    /\ analysis_task' = [pc |-> pc]
    /\ UNCHANGED <<backend_rest, analysis_status, status_objects, results_folder,
                   result_reader, responses>>

\* a step of the task that sets one field of the status object of the analysis
TaskSets(pc, field, value) ==
    /\ analysis_task' = [pc |-> pc]
    /\ status_objects' = [status_objects EXCEPT ![analysis_status][field] = value]
    /\ UNCHANGED <<backend_rest, analysis_status, results_folder, result_reader, responses>>

\* a step of the task on the files of the results folder
TaskWrites(pc, result, temp) ==
    /\ analysis_task' = [pc |-> pc]
    /\ results_folder' = [result |-> result, temp |-> temp]
    /\ UNCHANGED <<backend_rest, analysis_status, status_objects, result_reader, responses>>

\* analysis_status[analysis_id] = AnalysisStatus(status="processing", progress=10)
TaskStarts ==
    /\ analysis_task.pc = "scheduled"
    /\ analysis_task' = [pc |-> "exists"]
    /\ analysis_status' = 2
    /\ status_objects' = [o \in {1, 2} |-> IF o = 2 THEN AnalysisStatus("processing", 10)
                                           ELSE status_objects[1]]
    /\ UNCHANGED <<backend_rest, results_folder, result_reader, responses>>

\* if not os.path.exists(file_path): raise FileNotFoundError; else progress = 20
TaskChecksFile ==
    /\ analysis_task.pc = "exists"
    /\ \/ TaskMoves("except")
       \/ TaskSets("read", "progress", 20)

\* the contract is read: it is empty, or cannot be read, and the task raises; else
\* progress = 40
TaskReadsFile ==
    /\ analysis_task.pc = "read"
    /\ \/ TaskMoves("except")
       \/ TaskSets("detect", "progress", 40)

\* detect_vulnerabilities, the counts and the result: the detector or the count of an
\* unknown severity raises; else progress = 80
TaskDetects ==
    /\ analysis_task.pc = "detect"
    /\ \/ TaskMoves("except")
       \/ TaskSets("dump", "progress", 80)

\* save_analysis_results: open(temp_path, 'w'), which may fail
SaveOpensTemp ==
    /\ analysis_task.pc = "dump"
    /\ \/ TaskMoves("except")
       \/ TaskWrites("dumping", results_folder.result, "partial")

\* save_analysis_results: json.dump to the temporary file, to its end or to an error
\* after which the temporary file is removed
SaveDumps ==
    /\ analysis_task.pc = "dumping"
    /\ \/ TaskWrites("except", results_folder.result, "absent")
       \/ TaskWrites("move", results_folder.result, "full")

\* save_analysis_results: shutil.move(temp_path, output_path), or its failure, before
\* anything was written or after a part of the text was copied to the result file
SaveMoves ==
    /\ analysis_task.pc = "move"
    /\ \/ TaskWrites("saved", "full", "absent")
       \/ TaskMoves("copy")
       \/ TaskWrites("copy", "partial", results_folder.temp)

\* save_analysis_results, the copy made when the move failed: open(output_path, 'w')
SaveOpensResult ==
    /\ analysis_task.pc = "copy"
    /\ \/ TaskWrites("except", results_folder.result, "absent")
       \/ TaskWrites("copying", "empty", results_folder.temp)

\* save_analysis_results, the copy: dst.write(src.read()), to its end or to an error that
\* leaves a part of the text in the result file; the temporary file is removed, and a
\* removal that fails after the copy is ignored
SaveCopies ==
    /\ analysis_task.pc = "copying"
    /\ \/ TaskWrites("except", "partial", "absent")
       \/ TaskWrites("saved", "full", "absent")
       \/ TaskWrites("saved", "full", results_folder.temp)

\* analysis_status[analysis_id].status = "completed"
TaskCompletes ==
    /\ analysis_task.pc = "saved"
    /\ TaskSets("progress", "status", "completed")

\* analysis_status[analysis_id].progress = 100, and the task returns
TaskReturns ==
    /\ analysis_task.pc = "progress"
    /\ TaskSets("returned", "progress", 100)

\* except Exception: analysis_status[analysis_id].status = "failed"
TaskFails ==
    /\ analysis_task.pc = "except"
    /\ TaskSets("failed", "status", "failed")

\* except Exception: analysis_status[analysis_id].progress = 0, and the task raises
TaskRaises ==
    /\ analysis_task.pc = "failed"
    /\ TaskSets("raised", "progress", 0)

\* a step of a request that gives no response yet
ReaderMoves(pc) ==
    /\ result_reader' = [result_reader EXCEPT !.pc = pc]
    /\ UNCHANGED <<backend_rest, analysis_status, status_objects, results_folder,
                   analysis_task, responses>>

\* the response of a request, recorded with the status the analysis has at that moment
Responds(code) ==
    /\ result_reader' = Idle
    /\ responses' = responses \cup {[code |-> code, status |-> current_status.status]}
    /\ UNCHANGED <<backend_rest, analysis_status, status_objects, results_folder,
                   analysis_task>>

\* get_analysis_result: status = analysis_status.get(analysis_id)
ReaderGetsStatus ==
    /\ result_reader = Idle
    /\ result_reader' = [pc |-> "in_progress", holds |-> analysis_status]
    /\ UNCHANGED <<backend_rest, analysis_status, status_objects, results_folder,
                   analysis_task, responses>>

\* status.status == "processing" or status.status == "queued"
in_progress_queued_only(status) == status = "queued"
in_progress(status) == status = "processing" \/ status = "queued"

\* get_analysis_result: an analysis in progress is answered 202 with its status
ReaderChecksProgress ==
    /\ result_reader.pc = "in_progress"
    /\ IF in_progress(status_objects[result_reader.holds].status)
       THEN Responds(202)
       ELSE ReaderMoves("failed")

\* get_analysis_result: a failed analysis is answered 500
ReaderChecksFailed ==
    /\ result_reader.pc = "failed"
    /\ IF status_objects[result_reader.holds].status = "failed"
       THEN Responds(500)
       ELSE ReaderMoves("exists")

\* get_analysis_result: if not os.path.exists(result_path), the answer is 404
ReaderChecksFile ==
    /\ result_reader.pc = "exists"
    /\ IF results_folder.result = "absent"
       THEN Responds(404)
       ELSE ReaderMoves("load")

\* get_analysis_result: load_analysis_results(result_path); an empty file and a text that
\* is no JSON document raise ValueError, answered 500; a whole file is the response
ReaderLoads ==
    /\ result_reader.pc = "load"
    /\ Responds(CASE results_folder.result = "absent" -> 404
                  [] results_folder.result = "full" -> 200
                  [] OTHER -> 500)

NextBackend ==
    \/ TaskStarts
    \/ TaskChecksFile
    \/ TaskReadsFile
    \/ TaskDetects
    \/ SaveOpensTemp
    \/ SaveDumps
    \/ SaveMoves
    \/ SaveOpensResult
    \/ SaveCopies
    \/ TaskCompletes
    \/ TaskReturns
    \/ TaskFails
    \/ TaskRaises
    \/ ReaderGetsStatus
    \/ ReaderChecksProgress
    \/ ReaderChecksFailed
    \/ ReaderChecksFile
    \/ ReaderLoads

SpecBackend == InitBackend /\ [][NextBackend]_vars

\* the status of the analysis changes only from queued to processing and from processing
\* to completed or failed
StatusMovesForward ==
    current_status.status' # current_status.status =>
        \/ current_status.status = "queued" /\ current_status.status' = "processing"
        \/ current_status.status = "processing"
              /\ current_status.status' \in {"completed", "failed"}

\* the status is completed only when the result file is written in full; a task that has
\* returned left completed and 100, a task that has raised left failed and 0; and a result
\* was served only while the status was none of queued, processing and failed
StatusMatchesResult ==
    /\ current_status.status \in {"queued", "processing", "completed", "failed"}
    /\ current_status.status = "completed" => results_folder.result = "full"
    /\ current_status.progress = 100 => current_status.status = "completed"
    /\ analysis_task.pc = "returned" => current_status = AnalysisStatus("completed", 100)
    /\ analysis_task.pc = "raised" => current_status = AnalysisStatus("failed", 0)
    /\ analysis_task.pc = "none" => current_status = AnalysisStatus("failed", 0)
    /\ \A response \in responses : response.code = 200 => response.status = "completed"

\* C30: the status of an analysis moves only queued -> processing -> completed or failed;
\* it is completed, with progress 100 once the task has returned, only after the result
\* file is written in full; a task in which a step failed ends failed with progress 0 and
\* is never completed; get_analysis_result serves no result while the status is queued,
\* processing or failed.
C30_StatusFollowsTheTask ==
    [](StatusMatchesResult) /\ [][StatusMovesForward]_vars

\* the task has returned, and of the requests made one was answered 202 while the status
\* was processing and one was served the result once it was completed
C30_Witness ==
    /\ analysis_task.pc = "returned"
    /\ current_status = AnalysisStatus("completed", 100)
    /\ [code |-> 202, status |-> "processing"] \in responses
    /\ [code |-> 200, status |-> "completed"] \in responses

====
